---- MODULE Spec2Model ----
(***************************************************************************)
(* Model of the ai-reviewer pull-request review engine.                    *)
(*                                                                         *)
(*   MapperSpec  the diff-to-line mappers of the risk, static and doc      *)
(*               analyzers, applied to one file's patch text               *)
(*   DedupSpec   deduplicate_feedbacks (main.py), applied to a feedback    *)
(*               list and then again to its own output                     *)
(*   Spec        run_review (main.py), step by step, with the external     *)
(*               semantic analyzer (llm/client.py)                         *)
(*   SizeSpec    PRMetrics.size_category (models/review.py)                *)
(*   RiskSpec    RiskAnalyzer.analyze, file by file: the security and the  *)
(*               performance rules (analyzers/risk_analyzer.py)            *)
(*   RuleSpec    one rule of a rule table evaluated on one text, as it is  *)
(*               and in upper and lower case                               *)
(*   PrioritySpec  the severity string of a finding read by an analyzer    *)
(*   NamingSpec  StaticAnalyzer._check_naming on one added line            *)
(*   ConventionSpec  ConventionAnalyzer.analyze: the architecture rules    *)
(*               and the duplicate-function check over the files of a     *)
(*               pull request (analyzers/convention_analyzer.py)          *)
(*   FileSpec    one file under the loop bodies of StaticAnalyzer.analyze  *)
(*               and RiskAnalyzer.analyze                                  *)
(*                                                                         *)
(* Text is modelled by TLA+ strings; Optional[T] values by sequences of    *)
(* length 0 (None) or 1 (the value).                                       *)
(***************************************************************************)
EXTENDS Integers, Sequences, FiniteSets, TLC

VARIABLES
    \* --- mapper (one file of an analyzer's loop over context.files)
    patch,          \* PRFile.patch, the file's unified-diff text
    map_pc,         \* "input" before the mappers ran, "mapped" after, "idle"
    risk_added,     \* RiskAnalyzer._extract_added_lines(patch)
    static_added,   \* StaticAnalyzer._extract_added_lines(patch)
    doc_added,      \* DocAnalyzer._check_docstrings: (current_line, content) at each '+' line
    \* --- deduplicate_feedbacks
    fb_first,       \* the list handed to the first call
    fb_arg,         \* the list handed to the latest call (parameter feedbacks)
    fb_unique,      \* the list the latest call returned (unique)
    dedup_calls,    \* the number of calls made
    \* --- run_review
    pc,             \* the step run_review takes next; "done" once it returned; "idle"
    config,         \* Config: the required fields and enable_storage
    exit_code,      \* what run_review returned, None while it runs
    fetched,        \* "no", "ok" or "failed": what became of fetching the PR data
    analyzer_idx,   \* the position in the analyzers list
    analyzer_raised, \* the name of the analyzer whose analyze() raised, else None
    all_feedbacks,  \* all_feedbacks
    pattern_feedbacks, \* all_feedbacks when the loop over the analyzers ended (line 99)
    llm_outcome,    \* what the external analyzer did in this run, None before the call
    llm_result,     \* (llm_feedbacks, llm_summary, positives) of run_llm_analysis
    result,         \* the ReviewResult, None before it is built
    posted,         \* the Review handed to github.post_review and accepted, else None
    post_failed,    \* whether github.post_review raised
    stored,         \* "no", "saved" or "failed": what became of mongo.save_review
    \* --- PRMetrics.size_category
    metrics,        \* the PRMetrics: files_changed and total_changes
    size,           \* what size_category returned, None before it is read
    \* --- RiskAnalyzer.analyze
    risk_pc,        \* "analyze" in the loop over the files, "returned", "raised"; "idle"
    security_patterns, \* config.security.patterns
    builtin_table,  \* the list the class attribute RiskAnalyzer.BUILTIN_PATTERNS holds
    risk_file,      \* the file of the latest iteration, None before the first
    files_done,     \* the number of iterations made
    security_table, \* all_patterns of the latest call of _check_security_patterns
    security_out,   \* what that call did: returned a list, or raised
    performance_out, \* what _check_performance_patterns returned for the file
    risk_feedbacks, \* feedbacks of analyze
    \* --- one rule of a rule table, evaluated on one text
    rule_table,     \* "security", "performance" or the language of an anti-pattern table
    rule,           \* the rule
    rule_text,      \* the text it is evaluated on
    rule_hits,      \* whether it matched the text, and the text in upper and lower case
    \* --- the severity of a finding
    severity_of,    \* the analyzer that reads the severity string
    severity_label, \* the string
    severity_priority, \* the Priority the analyzer gave the finding, None before
    \* --- StaticAnalyzer._check_naming
    naming_language, \* the language of the file, by its extension
    naming_conventions, \* lang_config: the dict of the language in config.naming
    naming_line_num, \* the target line number of the added line
    naming_line,    \* the added line
    naming_out,     \* the list _check_naming returned, None before the call
    \* --- ConventionAnalyzer: the architecture and the duplicate checks
    conv_pc,        \* "architecture", "duplicates", "return", "returned"; "idle"
    conv_files,     \* context.files
    code_searches,  \* the (file, rule) pairs whose code pattern _check_architecture searched
    architecture_feedbacks, \* what _check_architecture returned
    function_sigs,  \* function_sigs of _check_duplicates at its end
    duplicate_feedbacks, \* what _check_duplicates returned
    conv_feedbacks, \* feedbacks of analyze, None before it returns
    \* --- the static and the risk analyzer on one file of context.files
    file_pc,        \* "static", "risk", "done"; "idle"
    checked_file,   \* the file
    checked_naming, \* config.naming.python
    checked_security, \* config.security.patterns
    static_found,   \* what the loop body of StaticAnalyzer.analyze added for the file, None before
    risk_found      \* what the loop body of RiskAnalyzer.analyze did with the file, None before

mapperVars == <<patch, map_pc, risk_added, static_added, doc_added>>
dedupVars == <<fb_first, fb_arg, fb_unique, dedup_calls>>
runVars == <<pc, config, exit_code, fetched, analyzer_idx, analyzer_raised, all_feedbacks,
             pattern_feedbacks, llm_outcome, llm_result, result, posted, post_failed, stored>>

sizeVars == <<metrics, size>>
riskVars == <<risk_pc, security_patterns, builtin_table, risk_file, files_done, security_table,
              security_out, performance_out, risk_feedbacks>>
ruleVars == <<rule_table, rule, rule_text, rule_hits>>
priorityVars == <<severity_of, severity_label, severity_priority>>
namingVars == <<naming_language, naming_conventions, naming_line_num, naming_line, naming_out>>
conventionVars == <<conv_pc, conv_files, code_searches, architecture_feedbacks,
                    function_sigs, duplicate_feedbacks, conv_feedbacks>>
fileVars == <<file_pc, checked_file, checked_naming, checked_security, static_found,
              risk_found>>

vars == <<mapperVars, dedupVars, runVars, sizeVars, riskVars, ruleVars, priorityVars,
          namingVars, conventionVars, fileVars>>

\* what each specification leaves alone: the variables of the others
besideMapper == <<dedupVars, runVars, sizeVars, riskVars, ruleVars, priorityVars,
                  namingVars, conventionVars, fileVars>>
besideDedup == <<mapperVars, runVars, sizeVars, riskVars, ruleVars, priorityVars,
                 namingVars, conventionVars, fileVars>>
besideRun == <<mapperVars, dedupVars, sizeVars, riskVars, ruleVars, priorityVars,
               namingVars, conventionVars, fileVars>>
besideSize == <<mapperVars, dedupVars, runVars, riskVars, ruleVars, priorityVars,
                namingVars, conventionVars, fileVars>>
besideRisk == <<mapperVars, dedupVars, runVars, sizeVars, ruleVars, priorityVars,
                namingVars, conventionVars, fileVars>>
besideRule == <<mapperVars, dedupVars, runVars, sizeVars, riskVars, priorityVars,
                namingVars, conventionVars, fileVars>>
besidePriority == <<mapperVars, dedupVars, runVars, sizeVars, riskVars, ruleVars,
                    namingVars, conventionVars, fileVars>>
besideNaming == <<mapperVars, dedupVars, runVars, sizeVars, riskVars, ruleVars,
                  priorityVars, conventionVars, fileVars>>
besideConvention == <<mapperVars, dedupVars, runVars, sizeVars, riskVars, ruleVars,
                      priorityVars, namingVars, fileVars>>
besideFile == <<mapperVars, dedupVars, runVars, sizeVars, riskVars, ruleVars,
                priorityVars, namingVars, conventionVars>>

-----------------------------------------------------------------------------
(* Bounds of the model                                                     *)

\* longest patch, in lines
MaxPatchLines == 4
\* longest feedback list handed to deduplicate_feedbacks
MaxFeedbacks == 3
\* how often deduplicate_feedbacks is applied in a row
MaxDedupCalls == 2
\* most findings one rule-based analyzer returns in a run
MaxPerAnalyzer == 1
\* largest files_changed and total_changes of a PRMetrics
MaxFilesChanged == 25
MaxTotalChanges == 600

-----------------------------------------------------------------------------
(* A specification holds the variables of the others at these values       *)

MapperIdle ==
    /\ patch = ""
    /\ map_pc = "idle"
    /\ risk_added = <<>>
    /\ static_added = <<>>
    /\ doc_added = <<>>

DedupIdle ==
    /\ fb_first = <<>>
    /\ fb_arg = <<>>
    /\ fb_unique = <<>>
    /\ dedup_calls = 0

RunIdle ==
    /\ pc = "idle"
    /\ config = <<>>
    /\ exit_code = <<>>
    /\ fetched = "no"
    /\ analyzer_idx = 0
    /\ analyzer_raised = <<>>
    /\ all_feedbacks = <<>>
    /\ pattern_feedbacks = <<>>
    /\ llm_outcome = <<>>
    /\ llm_result = <<>>
    /\ result = <<>>
    /\ posted = <<>>
    /\ post_failed = FALSE
    /\ stored = "no"

SizeIdle ==
    /\ metrics = <<>>
    /\ size = <<>>

RiskIdle ==
    /\ risk_pc = "idle"
    /\ security_patterns = <<>>
    /\ builtin_table = <<>>
    /\ risk_file = <<>>
    /\ files_done = 0
    /\ security_table = <<>>
    /\ security_out = <<>>
    /\ performance_out = <<>>
    /\ risk_feedbacks = <<>>

RuleIdle ==
    /\ rule_table = ""
    /\ rule = <<>>
    /\ rule_text = ""
    /\ rule_hits = <<>>

PriorityIdle ==
    /\ severity_of = ""
    /\ severity_label = ""
    /\ severity_priority = <<>>

NamingIdle ==
    /\ naming_language = ""
    /\ naming_conventions = <<>>
    /\ naming_line_num = 0
    /\ naming_line = ""
    /\ naming_out = <<>>

ConventionIdle ==
    /\ conv_pc = "idle"
    /\ conv_files = <<>>
    /\ code_searches = {}
    /\ architecture_feedbacks = <<>>
    /\ function_sigs = <<>>
    /\ duplicate_feedbacks = <<>>
    /\ conv_feedbacks = <<>>

FileIdle ==
    /\ file_pc = "idle"
    /\ checked_file = <<>>
    /\ checked_naming = <<>>
    /\ checked_security = <<>>
    /\ static_found = <<>>
    /\ risk_found = <<>>

BesideMapperIdle ==
    /\ DedupIdle
    /\ RunIdle
    /\ SizeIdle
    /\ RiskIdle
    /\ RuleIdle
    /\ PriorityIdle
    /\ NamingIdle
    /\ ConventionIdle
    /\ FileIdle

BesideDedupIdle ==
    /\ MapperIdle
    /\ RunIdle
    /\ SizeIdle
    /\ RiskIdle
    /\ RuleIdle
    /\ PriorityIdle
    /\ NamingIdle
    /\ ConventionIdle
    /\ FileIdle

BesideRunIdle ==
    /\ MapperIdle
    /\ DedupIdle
    /\ SizeIdle
    /\ RiskIdle
    /\ RuleIdle
    /\ PriorityIdle
    /\ NamingIdle
    /\ ConventionIdle
    /\ FileIdle

BesideSizeIdle ==
    /\ MapperIdle
    /\ DedupIdle
    /\ RunIdle
    /\ RiskIdle
    /\ RuleIdle
    /\ PriorityIdle
    /\ NamingIdle
    /\ ConventionIdle
    /\ FileIdle

BesideRiskIdle ==
    /\ MapperIdle
    /\ DedupIdle
    /\ RunIdle
    /\ SizeIdle
    /\ RuleIdle
    /\ PriorityIdle
    /\ NamingIdle
    /\ ConventionIdle
    /\ FileIdle

BesideRuleIdle ==
    /\ MapperIdle
    /\ DedupIdle
    /\ RunIdle
    /\ SizeIdle
    /\ RiskIdle
    /\ PriorityIdle
    /\ NamingIdle
    /\ ConventionIdle
    /\ FileIdle

BesidePriorityIdle ==
    /\ MapperIdle
    /\ DedupIdle
    /\ RunIdle
    /\ SizeIdle
    /\ RiskIdle
    /\ RuleIdle
    /\ NamingIdle
    /\ ConventionIdle
    /\ FileIdle

BesideNamingIdle ==
    /\ MapperIdle
    /\ DedupIdle
    /\ RunIdle
    /\ SizeIdle
    /\ RiskIdle
    /\ RuleIdle
    /\ PriorityIdle
    /\ ConventionIdle
    /\ FileIdle

BesideConventionIdle ==
    /\ MapperIdle
    /\ DedupIdle
    /\ RunIdle
    /\ SizeIdle
    /\ RiskIdle
    /\ RuleIdle
    /\ PriorityIdle
    /\ NamingIdle
    /\ FileIdle

BesideFileIdle ==
    /\ MapperIdle
    /\ DedupIdle
    /\ RunIdle
    /\ SizeIdle
    /\ RiskIdle
    /\ RuleIdle
    /\ PriorityIdle
    /\ NamingIdle
    /\ ConventionIdle

-----------------------------------------------------------------------------
(* Strings                                                                 *)

\* str.startswith
StartsWith(s, p) == Len(s) >= Len(p) /\ SubSeq(s, 1, Len(p)) = p

CharAt(s, i) == SubSeq(s, i, i)

\* whether the literal lit stands in s at position i
HasAt(s, i, lit) == i + Len(lit) - 1 <= Len(s) /\ SubSeq(s, i, i + Len(lit) - 1) = lit

UpperLetters == "ABCDEFGHIJKLMNOPQRSTUVWXYZ"
LowerLetters == "abcdefghijklmnopqrstuvwxyz"

LetterIndex(c, letters) ==
    IF \E k \in 1..Len(letters) : CharAt(letters, k) = c
    THEN CHOOSE k \in 1..Len(letters) : CharAt(letters, k) = c
    ELSE 0

\* str.lower and str.upper on one character
LowerChar(c) ==
    IF LetterIndex(c, UpperLetters) # 0
    THEN CharAt(LowerLetters, LetterIndex(c, UpperLetters)) ELSE c

UpperChar(c) ==
    IF LetterIndex(c, LowerLetters) # 0
    THEN CharAt(UpperLetters, LetterIndex(c, LowerLetters)) ELSE c

\* str.lower and str.upper
RECURSIVE Lower(_)
Lower(s) == IF s = "" THEN "" ELSE LowerChar(CharAt(s, 1)) \o Lower(SubSeq(s, 2, Len(s)))

RECURSIVE Upper(_)
Upper(s) == IF s = "" THEN "" ELSE UpperChar(CharAt(s, 1)) \o Upper(SubSeq(s, 2, Len(s)))

Digits == {"0", "1", "2", "3", "4", "5", "6", "7", "8", "9"}

DigitValue(c) ==
    CASE c = "0" -> 0 [] c = "1" -> 1 [] c = "2" -> 2 [] c = "3" -> 3 [] c = "4" -> 4
      [] c = "5" -> 5 [] c = "6" -> 6 [] c = "7" -> 7 [] c = "8" -> 8 [] c = "9" -> 9

\* int(s) of a string of decimal digits
RECURSIVE ParseInt(_)
ParseInt(ds) ==
    IF ds = "" THEN 0
    ELSE 10 * ParseInt(SubSeq(ds, 1, Len(ds) - 1)) + DigitValue(CharAt(ds, Len(ds)))

\* str.split('\n'): the pieces between newlines; never empty
RECURSIVE SplitFrom(_, _, _)
SplitFrom(s, start, i) ==
    IF i > Len(s) THEN <<SubSeq(s, start, Len(s))>>
    ELSE IF CharAt(s, i) = "\n"
         THEN <<SubSeq(s, start, i - 1)>> \o SplitFrom(s, i + 1, i + 1)
         ELSE SplitFrom(s, start, i + 1)

SplitLines(s) == SplitFrom(s, 1, 1)

\* "\n".join(lines)
RECURSIVE JoinLines(_)
JoinLines(ls) ==
    IF Len(ls) = 0 THEN ""
    ELSE IF Len(ls) = 1 THEN ls[1]
    ELSE ls[1] \o "\n" \o JoinLines(Tail(ls))

-----------------------------------------------------------------------------
(* The hunk-header pattern  @@ -\d+(?:,\d+)? \+(\d+)(?:,\d+)? @@           *)

\* \d+ from position i, greedy: the position after the run of digits
RECURSIVE SkipDigits(_, _)
SkipDigits(s, i) ==
    IF i <= Len(s) /\ CharAt(s, i) \in Digits THEN SkipDigits(s, i + 1) ELSE i

\* (?:,\d+)? from position i: the position after the optional count
SkipOptCount(s, i) ==
    IF i + 1 <= Len(s) /\ CharAt(s, i) = "," /\ CharAt(s, i + 1) \in Digits
    THEN SkipDigits(s, i + 1)
    ELSE i

\* re.match of the pattern at the start of line; group1 is the text of (\d+)
HunkHeaderMatch(line) ==
    LET oldStart == 5
        oldEnd   == SkipDigits(line, oldStart)
        oldCnt   == SkipOptCount(line, oldEnd)
        newStart == oldCnt + 2
        newEnd   == SkipDigits(line, newStart)
        newCnt   == SkipOptCount(line, newEnd)
        ok == /\ HasAt(line, 1, "@@ -")
              /\ oldEnd > oldStart
              /\ HasAt(line, oldCnt, " +")
              /\ newEnd > newStart
              /\ HasAt(line, newCnt, " @@")
    IN  [matched |-> ok,
         group1  |-> IF ok THEN SubSeq(line, newStart, newEnd - 1) ELSE ""]

-----------------------------------------------------------------------------
(* The diff-to-line mappers                                                *)

\* the mutations of the loop body used to test the claims
MapLine_CountsRemoved(st, line) ==
    IF StartsWith(line, "@@")
    THEN LET match == HunkHeaderMatch(line)
         IN  IF match.matched
             THEN [st EXCEPT !.current_line = ParseInt(match.group1)]
             ELSE st
    ELSE IF StartsWith(line, "+") /\ ~StartsWith(line, "+++")
    THEN [current_line |-> st.current_line + 1,
          added_lines  |-> Append(st.added_lines,
                                  <<st.current_line, SubSeq(line, 2, Len(line))>>)]
    ELSE [st EXCEPT !.current_line = st.current_line + 1]

MapLine_NoIncrementOnAdded(st, line) ==
    IF StartsWith(line, "@@")
    THEN LET match == HunkHeaderMatch(line)
         IN  IF match.matched
             THEN [st EXCEPT !.current_line = ParseInt(match.group1)]
             ELSE st
    ELSE IF StartsWith(line, "+") /\ ~StartsWith(line, "+++")
    THEN [st EXCEPT !.added_lines =
              Append(st.added_lines, <<st.current_line, SubSeq(line, 2, Len(line))>>)]
    ELSE IF ~StartsWith(line, "-")
    THEN [st EXCEPT !.current_line = st.current_line + 1]
    ELSE st

\* one iteration of the loop of _extract_added_lines over patch.split('\n')
MapLine(st, line) ==
    IF StartsWith(line, "@@")
    THEN LET match == HunkHeaderMatch(line)
         IN  IF match.matched
             THEN [st EXCEPT !.current_line = ParseInt(match.group1)]
             ELSE st
    ELSE IF StartsWith(line, "+") /\ ~StartsWith(line, "+++")
    THEN [current_line |-> st.current_line + 1,
          added_lines  |-> Append(st.added_lines,
                                  <<st.current_line, SubSeq(line, 2, Len(line))>>)]
    ELSE IF ~StartsWith(line, "-")
    THEN [st EXCEPT !.current_line = st.current_line + 1]
    ELSE st

RECURSIVE MapLines(_, _)
MapLines(st, ls) ==
    IF Len(ls) = 0 THEN st ELSE MapLines(MapLine(st, Head(ls)), Tail(ls))

\* RiskAnalyzer._extract_added_lines
ExtractAddedLines(p) ==
    MapLines([current_line |-> 0, added_lines |-> <<>>], SplitLines(p)).added_lines

\* StaticAnalyzer._extract_added_lines, a textual copy of the risk analyzer's
StaticMapLine(st, line) ==
    IF StartsWith(line, "@@")
    THEN LET match == HunkHeaderMatch(line)
         IN  IF match.matched
             THEN [st EXCEPT !.current_line = ParseInt(match.group1)]
             ELSE st
    ELSE IF StartsWith(line, "+") /\ ~StartsWith(line, "+++")
    THEN [current_line |-> st.current_line + 1,
          added_lines  |-> Append(st.added_lines,
                                  <<st.current_line, SubSeq(line, 2, Len(line))>>)]
    ELSE IF ~StartsWith(line, "-")
    THEN [st EXCEPT !.current_line = st.current_line + 1]
    ELSE st

RECURSIVE StaticMapLines(_, _)
StaticMapLines(st, ls) ==
    IF Len(ls) = 0 THEN st ELSE StaticMapLines(StaticMapLine(st, Head(ls)), Tail(ls))

StaticExtractAddedLines(p) ==
    StaticMapLines([current_line |-> 0, added_lines |-> <<>>], SplitLines(p)).added_lines

\* The line counter of DocAnalyzer._check_docstrings: the header branch ends
\* with continue; an added line is examined at current_line (the line a
\* "Missing Docstring" finding on it carries), then counted.
DocMapLine(st, line) ==
    IF StartsWith(line, "@@")
    THEN LET match == HunkHeaderMatch(line)
         IN  IF match.matched
             THEN [st EXCEPT !.current_line = ParseInt(match.group1)]
             ELSE st
    ELSE IF StartsWith(line, "+") /\ ~StartsWith(line, "+++")
    THEN LET content == SubSeq(line, 2, Len(line))
         IN  [current_line |-> st.current_line + 1,
              added_lines  |-> Append(st.added_lines, <<st.current_line, content>>)]
    ELSE IF ~StartsWith(line, "-")
    THEN [st EXCEPT !.current_line = st.current_line + 1]
    ELSE st

RECURSIVE DocMapLines(_, _)
DocMapLines(st, ls) ==
    IF Len(ls) = 0 THEN st ELSE DocMapLines(DocMapLine(st, Head(ls)), Tail(ls))

DocExaminedLines(p) ==
    DocMapLines([current_line |-> 0, added_lines |-> <<>>], SplitLines(p)).added_lines

-----------------------------------------------------------------------------
(* MapperSpec: a patch text is given, the three mappers run on it          *)

\* the lines patches are made of
PatchLinePool ==
    { "@@ -1,2 +1,3 @@",      \* hunk header with counts
      "@@ -3 +5,2 @@",        \* hunk header, old count left out
      "@@ -1 +1",             \* begins with @@ but is no hunk header
      " context",
      "+added line",
      "-removed",
      "+++ b/f.py",           \* file marker
      "" }                    \* what a trailing newline leaves

RECURSIVE LineSeqs(_)
LineSeqs(n) ==
    IF n = 0 THEN {<<>>}
    ELSE LET shorter == LineSeqs(n - 1)
         IN  shorter \cup {Append(ls, l) : ls \in {x \in shorter : Len(x) = n - 1},
                                           l \in PatchLinePool}

Patches == {JoinLines(ls) : ls \in LineSeqs(MaxPatchLines) \ {<<>>}}

MapperInit ==
    /\ patch \in Patches
    /\ map_pc = "input"
    /\ risk_added = <<>>
    /\ static_added = <<>>
    /\ doc_added = <<>>
    /\ BesideMapperIdle

\* the analyzers map the file's patch (analyze, each analyzer's loop body)
MapPatch ==
    /\ map_pc = "input"
    /\ risk_added' = ExtractAddedLines(patch)
    /\ static_added' = StaticExtractAddedLines(patch)
    /\ doc_added' = DocExaminedLines(patch)
    /\ map_pc' = "mapped"
    /\ UNCHANGED <<patch, besideMapper>>

MapperNext == MapPatch

MapperSpec == MapperInit /\ [][MapperNext]_vars

-----------------------------------------------------------------------------
(* What the claims about the mappers speak of                              *)

PatchLines == SplitLines(patch)

IsHunkHeader(l) == StartsWith(l, "@@") /\ HunkHeaderMatch(l).matched
NewStartOf(l) == ParseInt(HunkHeaderMatch(l).group1)

\* an added line as the mappers understand it
IsRecordedLine(l) == StartsWith(l, "+") /\ ~StartsWith(l, "+++")
\* a context or added line: it exists in the target file and is counted
IsCountedLine(l) == ~StartsWith(l, "-") /\ ~StartsWith(l, "@@")

\* the positions of the recorded lines, in order
RecordedIdx(ls) ==
    LET Test(i) == IsRecordedLine(ls[i])
    IN  SelectSeq([i \in 1..Len(ls) |-> i], Test)

\* the position of the last hunk header before line i, 0 if there is none
LastHeaderBefore(ls, i) ==
    LET hs == {h \in 1..(i - 1) : IsHunkHeader(ls[h])}
    IN  IF hs = {} THEN 0 ELSE CHOOSE h \in hs : \A g \in hs : g <= h

CountedBetween(ls, h, i) == Cardinality({j \in (h + 1)..(i - 1) : IsCountedLine(ls[j])})

\* the mapper output out obeys the counting discipline on the lines ls
ObeysCounting(ls, out) ==
    LET idx == RecordedIdx(ls)
    IN  /\ Len(out) = Len(idx)
        /\ \A k \in 1..Len(idx) :
              LET i == idx[k]
                  h == LastHeaderBefore(ls, i)
              IN  /\ out[k][2] = SubSeq(ls[i], 2, Len(ls[i]))
                  /\ h > 0 => out[k][1] = NewStartOf(ls[h]) + CountedBetween(ls, h, i)

ExamplePatch == "@@ -1,2 +1,3 @@\n context\n+added line\n-removed"

\* C1: each mapper (risk, static, doc) records exactly the '+' lines that do
\* not start with '+++', each with the newStart of the most recent hunk header
\* plus the number of context and added lines seen since that header ('-'
\* lines are neither recorded nor counted); the example patch maps to
\* [(2, 'added line')].
C1_CountingDiscipline ==
    map_pc = "mapped" =>
        /\ ObeysCounting(PatchLines, risk_added)
        /\ ObeysCounting(PatchLines, static_added)
        /\ ObeysCounting(PatchLines, doc_added)
        /\ patch = ExamplePatch =>
              /\ risk_added = << <<2, "added line">> >>
              /\ static_added = risk_added
              /\ doc_added = risk_added

C1_Witness ==
    /\ map_pc = "mapped"
    /\ patch = ExamplePatch
    /\ risk_added = << <<2, "added line">> >>

\* the text of the count in (?:,\d+)? at position i, "1" when it is left out
CountText(l, i) ==
    IF SkipOptCount(l, i) = i THEN "1" ELSE SubSeq(l, i + 1, SkipOptCount(l, i) - 1)

OldCountOf(l) == ParseInt(CountText(l, SkipDigits(l, 5)))
NewCountOf(l) ==
    LET newStart == SkipOptCount(l, SkipDigits(l, 5)) + 2
    IN  ParseInt(CountText(l, SkipDigits(l, newStart)))

\* the body of the hunk whose header is line h: the positions up to the next
\* header or the end of the patch
HunkBody(ls, h) ==
    {i \in (h + 1)..Len(ls) : \A j \in (h + 1)..i : ~IsHunkHeader(ls[j])}

\* a unified diff of one file as the hosting service hands it over: it starts
\* with a hunk header, every other line is a context (' '), added ('+') or
\* removed ('-') line, and each header's counts are those of its body
IsValidDiff(ls) ==
    /\ Len(ls) >= 1
    /\ IsHunkHeader(ls[1])
    /\ \A i \in 1..Len(ls) :
          \/ IsHunkHeader(ls[i])
          \/ StartsWith(ls[i], " ") \/ StartsWith(ls[i], "+") \/ StartsWith(ls[i], "-")
    /\ \A h \in 1..Len(ls) : IsHunkHeader(ls[h]) =>
          LET body == HunkBody(ls, h)
          IN  /\ NewCountOf(ls[h]) =
                    Cardinality({i \in body : StartsWith(ls[i], " ") \/ StartsWith(ls[i], "+")})
              /\ OldCountOf(ls[h]) =
                    Cardinality({i \in body : StartsWith(ls[i], " ") \/ StartsWith(ls[i], "-")})

\* the line numbers out gives to the recorded lines of the hunk at h, in order
HunkNumbers(ls, out, h) ==
    LET idx == RecordedIdx(ls)
        InHunk(k) == idx[k] \in HunkBody(ls, h)
        ks == SelectSeq([k \in 1..Len(idx) |-> k], InHunk)
    IN  [n \in 1..Len(ks) |-> out[ks[n]][1]]

StrictlyIncreasing(q) == \A m, n \in 1..Len(q) : m < n => q[m] < q[n]
Range(q) == {q[n] : n \in 1..Len(q)}
\* the number of added lines ('+', not '+++') of the hunk at h
AddedCount(ls, h) == Cardinality({i \in HunkBody(ls, h) : IsRecordedLine(ls[i])})

\* C2 as stated: in a valid diff the numbers of a hunk are strictly increasing
\* and are exactly newStart .. newStart + addedCount - 1.
C2_ExactRange ==
    (map_pc = "mapped" /\ IsValidDiff(PatchLines)) =>
        /\ Len(risk_added) = Len(RecordedIdx(PatchLines))
        /\ \A h \in 1..Len(PatchLines) : IsHunkHeader(PatchLines[h]) =>
              LET q == HunkNumbers(PatchLines, risk_added, h)
                  first == NewStartOf(PatchLines[h])
              IN  /\ StrictlyIncreasing(q)
                  /\ Range(q) = first..(first + AddedCount(PatchLines, h) - 1)

\* whether the added lines of the hunk at h come before every other line of
\* its body
AddedLinesLead(ls, h) ==
    \A i, j \in HunkBody(ls, h) : (IsRecordedLine(ls[i]) /\ j < i) => IsRecordedLine(ls[j])

HunkClaim(ls, out, h) ==
    LET q == HunkNumbers(ls, out, h)
        first == NewStartOf(ls[h])
    IN  /\ StrictlyIncreasing(q)
        /\ Range(q) \subseteq first..(first + NewCountOf(ls[h]) - 1)
        /\ AddedLinesLead(ls, h) => Range(q) = first..(first + AddedCount(ls, h) - 1)

\* C2 amended: in a valid diff the numbers of a hunk are strictly increasing
\* and lie in newStart .. newStart + newCount - 1; they are exactly
\* newStart .. newStart + addedCount - 1 when the hunk's added lines come
\* before every other line of the hunk.
C2_IncreasingWithinHunk ==
    (map_pc = "mapped" /\ IsValidDiff(PatchLines)) =>
        /\ Len(risk_added) = Len(RecordedIdx(PatchLines))
        /\ Len(static_added) = Len(RecordedIdx(PatchLines))
        /\ \A h \in 1..Len(PatchLines) : IsHunkHeader(PatchLines[h]) =>
              /\ HunkClaim(PatchLines, risk_added, h)
              /\ HunkClaim(PatchLines, static_added, h)

C2_Witness ==
    /\ map_pc = "mapped"
    /\ IsValidDiff(PatchLines)
    /\ Len(risk_added) >= 2
    /\ \E i \in 1..Len(PatchLines) : StartsWith(PatchLines[i], "-")

HasNoHunkHeader(ls) == \A i \in 1..Len(ls) : ~IsHunkHeader(ls[i])

\* C3 as stated: a patch without a parsable hunk header maps to the empty
\* sequence.
C3_NoHeaderYieldsEmpty ==
    (map_pc = "mapped" /\ HasNoHunkHeader(PatchLines)) =>
        /\ risk_added = <<>>
        /\ static_added = <<>>

\* C4 as stated: every pair the mapper returns has line_number >= 1 and is a
\* line the diff introduces.
C4_PositiveLineNumbers ==
    map_pc = "mapped" =>
        \A k \in 1..Len(risk_added) :
            /\ risk_added[k][1] >= 1
            /\ \E i \in 1..Len(PatchLines) : PatchLines[i] = "+" \o risk_added[k][2]

-----------------------------------------------------------------------------
(* Feedback (models/feedback.py) and deduplicate_feedbacks (main.py)       *)

None == <<>>
Some(x) == <<x>>

Priorities == {"HIGH", "MEDIUM", "LOW", "NIT"}

\* Feedback(...): the fields of the pydantic model, the unset ones at their defaults
Feedback(file, line, priority, category, title, message, suggestion) ==
    [file |-> file, line |-> line, end_line |-> None, priority |-> priority,
     category |-> category, title |-> title, message |-> message,
     suggestion |-> suggestion, code_snippet |-> None]

\* ord(c) of the characters file names are made of here
CodePoint(c) ==
    CASE c = "." -> 46 [] c = "/" -> 47 [] c = "_" -> 95
      [] OTHER -> 96 + LetterIndex(c, LowerLetters)

\* a < b on str: lexicographic by code point, a proper prefix first
RECURSIVE StrLess(_, _)
StrLess(a, b) ==
    IF b = "" THEN FALSE
    ELSE IF a = "" THEN TRUE
    ELSE IF CharAt(a, 1) # CharAt(b, 1)
         THEN CodePoint(CharAt(a, 1)) < CodePoint(CharAt(b, 1))
         ELSE StrLess(SubSeq(a, 2, Len(a)), SubSeq(b, 2, Len(b)))

\* priority_order.get(x.priority, 4)
PriorityOrder(p) ==
    CASE p = "HIGH" -> 0 [] p = "MEDIUM" -> 1 [] p = "LOW" -> 2 [] p = "NIT" -> 3
      [] OTHER -> 4

\* x.file or ""
FileOrEmpty(file) == IF file = None \/ file = Some("") THEN "" ELSE file[1]

SortKey_IgnoresFile(x) == <<PriorityOrder(x.priority), "">>

\* the key of unique.sort: (priority_order.get(x.priority, 4), x.file or "")
SortKey(x) == <<PriorityOrder(x.priority), FileOrEmpty(x.file)>>

\* k1 < k2 on the key tuples
KeyLess(k1, k2) == k1[1] < k2[1] \/ (k1[1] = k2[1] /\ StrLess(k1[2], k2[2]))

InsertSorted_BeforeEqual(sorted, x) ==
    LET after == {i \in 1..Len(sorted) : ~KeyLess(SortKey(sorted[i]), SortKey(x))}
        at == IF after = {} THEN Len(sorted) + 1
              ELSE CHOOSE i \in after : \A j \in after : i <= j
    IN  SubSeq(sorted, 1, at - 1) \o <<x>> \o SubSeq(sorted, at, Len(sorted))

\* list.sort is stable: x, which followed everything in sorted, goes before the
\* first entry whose key is greater and after every entry whose key is equal
InsertSorted(sorted, x) ==
    LET after == {i \in 1..Len(sorted) : KeyLess(SortKey(x), SortKey(sorted[i]))}
        at == IF after = {} THEN Len(sorted) + 1
              ELSE CHOOSE i \in after : \A j \in after : i <= j
    IN  SubSeq(sorted, 1, at - 1) \o <<x>> \o SubSeq(sorted, at, Len(sorted))

RECURSIVE SortFrom(_, _)
SortFrom(sorted, rest) ==
    IF Len(rest) = 0 THEN sorted ELSE SortFrom(InsertSorted(sorted, Head(rest)), Tail(rest))

\* unique.sort(key=...)
StableSort(list) == SortFrom(<<>>, list)

\* key = (fb.file, fb.line, fb.title, fb.category)
DedupKey(fb) == <<fb.file, fb.line, fb.title, fb.category>>

DedupStep_KeepsLast(st, fb) ==
    IF DedupKey(fb) \notin st.seen
    THEN [seen |-> st.seen \cup {DedupKey(fb)}, unique |-> Append(st.unique, fb)]
    ELSE [st EXCEPT !.unique =
              [i \in 1..Len(st.unique) |->
                  IF DedupKey(st.unique[i]) = DedupKey(fb) THEN fb ELSE st.unique[i]]]

\* one iteration of the loop over feedbacks
DedupStep(st, fb) ==
    IF DedupKey(fb) \notin st.seen
    THEN [seen |-> st.seen \cup {DedupKey(fb)}, unique |-> Append(st.unique, fb)]
    ELSE st

RECURSIVE DedupLoop(_, _)
DedupLoop(st, fbs) ==
    IF Len(fbs) = 0 THEN st ELSE DedupLoop(DedupStep(st, Head(fbs)), Tail(fbs))

\* deduplicate_feedbacks(feedbacks)
DeduplicateFeedbacks(feedbacks) ==
    StableSort(DedupLoop([seen |-> {}, unique |-> <<>>], feedbacks).unique)

-----------------------------------------------------------------------------
(* DedupSpec: a feedback list is aggregated, and its result aggregated     *)
(* again                                                                   *)

\* the findings lists are made of: two that share a key and differ in
\* severity, message and suggestion, findings without file (PR-level ones),
\* one with an empty file name (as the external analyzer may send), and
\* files and severities in several orders
FeedbackPool ==
    { Feedback(Some("b.py"), Some(3), "MEDIUM", "security", "Eval Usage",
               "Use of eval()", Some("Avoid eval()")),
      Feedback(Some("b.py"), Some(3), "HIGH", "security", "Eval Usage",
               "eval is dangerous", None),
      Feedback(Some("a.py"), Some(1), "NIT", "style", "Naming Convention",
               "should be snake_case", None),
      Feedback(Some("ab.py"), Some(2), "HIGH", "security", "Private Key",
               "Private key detected", None),
      Feedback(Some("a.py"), Some(2), "HIGH", "performance", "N+1 Query Pattern",
               "query inside a loop", None),
      Feedback(None, None, "LOW", "documentation", "Consider CHANGELOG Update",
               "new features", None),
      Feedback(None, None, "HIGH", "pr_structure", "PR Too Large",
               "too many files", None),
      Feedback(None, None, "MEDIUM", "testing", "No Test Changes",
               "no test files were modified", None),
      Feedback(Some("a.py"), None, "LOW", "architecture", "Potential Duplicate Function",
               "also exists in b.py", None),
      Feedback(Some(""), None, "HIGH", "best_practice", "General",
               "no file given", None) }

RECURSIVE FeedbackSeqs(_)
FeedbackSeqs(n) ==
    IF n = 0 THEN {<<>>}
    ELSE LET shorter == FeedbackSeqs(n - 1)
         IN  shorter \cup {Append(fs, f) : fs \in {x \in shorter : Len(x) = n - 1},
                                           f \in FeedbackPool}

DedupInit ==
    /\ fb_first \in FeedbackSeqs(MaxFeedbacks)
    /\ fb_arg = fb_first
    /\ fb_unique = <<>>
    /\ dedup_calls = 0
    /\ BesideDedupIdle

\* the mutant that sorts the list it was given, as feedbacks.sort would
Deduplicate_SortsArgument ==
    /\ dedup_calls < MaxDedupCalls
    /\ LET feedbacks == IF dedup_calls = 0 THEN fb_arg ELSE fb_unique
       IN  /\ fb_arg' = StableSort(feedbacks)
           /\ fb_unique' = DeduplicateFeedbacks(feedbacks)
    /\ dedup_calls' = dedup_calls + 1
    /\ UNCHANGED <<fb_first, besideDedup>>

\* deduplicate_feedbacks is called: first on the given list, then on what the
\* call before returned
Deduplicate ==
    /\ dedup_calls < MaxDedupCalls
    /\ LET feedbacks == IF dedup_calls = 0 THEN fb_arg ELSE fb_unique
       IN  /\ fb_arg' = feedbacks
           /\ fb_unique' = DeduplicateFeedbacks(feedbacks)
    /\ dedup_calls' = dedup_calls + 1
    /\ UNCHANGED <<fb_first, besideDedup>>

DedupNext == Deduplicate

DedupSpec == DedupInit /\ [][DedupNext]_vars

-----------------------------------------------------------------------------
(* The external semantic analyzer (llm/client.py)                          *)

\* A response text: raw is the text itself, json what json.loads makes of it
\* (None: it raises JSONDecodeError), fenced the text of the first fenced json
\* block in it (None: the pattern of line 139 does not match). In the texts
\* below ''' stands for the fence of three backquotes.
Text(raw, json, fenced) == [raw |-> raw, json |-> json, fenced |-> fenced]

\* a JSON value: its Python type after json.loads and, for an object, the
\* values under the keys the parser reads (None: the key is missing)
JsonValue(type, summary, positives, findings) ==
    [type |-> type, summary |-> summary, positives |-> positives, findings |-> findings]

\* one entry of "findings": a dict, each key present or missing
Finding(file, line, priority, category, title, message) ==
    [file |-> file, line |-> line, priority |-> priority, category |-> category,
     title |-> title, message |-> message, suggestion |-> None]

\* dict.get(key, default)
GetOr(value, default) == IF value = None THEN default ELSE value[1]

\* LLMClient._parse_priority
ParsePriority(priority_str) ==
    LET l == Lower(priority_str)
    IN  CASE l = "high" -> "HIGH" [] l = "medium" -> "MEDIUM" [] l = "low" -> "LOW"
          [] l = "nit" -> "NIT" [] OTHER -> "LOW"

Categories ==
    {"security", "performance", "style", "architecture", "testing", "documentation",
     "pr_structure", "best_practice"}

\* LLMClient._parse_category
ParseCategory(category_str) ==
    IF Lower(category_str) \in Categories THEN Lower(category_str) ELSE "best_practice"

\* the body of the loop over findings: one Feedback per finding
FindingFeedback(finding) ==
    [file |-> finding.file, line |-> finding.line, end_line |-> None,
     priority |-> ParsePriority(GetOr(finding.priority, "LOW")),
     category |-> ParseCategory(GetOr(finding.category, "best_practice")),
     title |-> GetOr(finding.title, ""), message |-> GetOr(finding.message, ""),
     suggestion |-> finding.suggestion, code_snippet |-> None]

Returned(feedbacks, summary, positives) ==
    [raised |-> FALSE, error |-> "", feedbacks |-> feedbacks, summary |-> summary,
     positives |-> positives]

Raised(error) ==
    [raised |-> TRUE, error |-> error, feedbacks |-> <<>>, summary |-> "", positives |-> <<>>]

\* LLMClient._parse_response(content); content is None or Some(text)
RECURSIVE ParseResponse(_)
ParseResponse(content) ==
    IF content = None
    THEN \* json.loads(None): TypeError, not caught here
         Raised("the JSON object must be str, bytes or bytearray, not NoneType")
    ELSE LET text == content[1]
         IN  IF text.json = None
             THEN \* except json.JSONDecodeError
                  IF text.fenced # None
                  THEN ParseResponse(text.fenced)
                  ELSE Returned(<<>>, text.raw, <<>>)
             ELSE LET data == text.json[1]
                  IN  IF data.type # "dict"
                      THEN \* data.get: AttributeError, not caught here
                           Raised("'" \o data.type \o "' object has no attribute 'get'")
                      ELSE LET findings == GetOr(data.findings, <<>>)
                           IN  Returned([i \in 1..Len(findings) |-> FindingFeedback(findings[i])],
                                        GetOr(data.summary, ""),
                                        GetOr(data.positives, <<>>))

\* What the service does with the request: the call raises (call_error is
\* str(e)) or it answers with message.content.
ApiOutcome(call_error, content) == [call_error |-> call_error, content |-> content]

AnalyzeCode_KeepsFindings(api) ==
    IF api.call_error # None \/ ParseResponse(api.content).raised
    THEN << <<Feedback(None, None, "LOW", "best_practice", "General", "partial answer", None)>>,
            "AI analysis failed: ", <<>> >>
    ELSE LET parsed == ParseResponse(api.content)
         IN  <<parsed.feedbacks, parsed.summary, parsed.positives>>

\* LLMClient.analyze_code, from the request on (lines 67-84)
AnalyzeCode(api) ==
    IF api.call_error # None
    THEN <<<<>>, "AI analysis failed: " \o api.call_error[1], <<>>>>
    ELSE LET parsed == ParseResponse(api.content)
         IN  IF parsed.raised
             THEN <<<<>>, "AI analysis failed: " \o parsed.error, <<>>>>
             ELSE <<parsed.feedbacks, parsed.summary, parsed.positives>>

\* What the external analyzer does in a run: constructing the client raises,
\* or the client is built and the request has the outcome api.
LlmOutcome(ctor_raises, api) == [ctor_raises |-> ctor_raises, api |-> api]

\* run_llm_analysis(config, context)
RunLlmAnalysis(outcome) ==
    IF outcome.ctor_raises
    THEN <<<<>>, "", <<>>>>
    ELSE AnalyzeCode(outcome.api)

-----------------------------------------------------------------------------
(* ReviewResult (models/review.py) and Config.validate (config.py)         *)

CountOf(feedbacks, priority) ==
    Len(SelectSeq(feedbacks, LAMBDA f : f.priority = priority))

\* ReviewResult.get_feedbacks_by_priority
GetFeedbacksByPriority(res, priority) ==
    SelectSeq(res.feedbacks, LAMBDA f : f.priority = priority)

\* ReviewResult.high_priority_count
HighPriorityCount(res) == CountOf(res.feedbacks, "HIGH")

OverallStatus_IgnoresNit(res) ==
    IF CountOf(res.feedbacks, "HIGH") > 0 THEN "Changes Requested"
    ELSE IF CountOf(res.feedbacks, "MEDIUM") > 0 THEN "Needs Attention"
    ELSE IF CountOf(res.feedbacks, "LOW") > 0 THEN "Looking Good"
    ELSE "Approved"

\* ReviewResult.overall_status (the text after the status emoji)
OverallStatus(res) ==
    IF CountOf(res.feedbacks, "HIGH") > 0 THEN "Changes Requested"
    ELSE IF CountOf(res.feedbacks, "MEDIUM") > 0 THEN "Needs Attention"
    ELSE IF CountOf(res.feedbacks, "LOW") > 0 \/ CountOf(res.feedbacks, "NIT") > 0
    THEN "Looking Good"
    ELSE "Approved"

\* the mutant that renders the four sections whether they have entries or not
ToMarkdown_KeepsEmptySections(res) ==
    [status |-> OverallStatus(res),
     issue_counts |-> IF res.feedbacks # <<>>
                      THEN Some(<<CountOf(res.feedbacks, "HIGH"), CountOf(res.feedbacks, "MEDIUM"),
                                  CountOf(res.feedbacks, "LOW"), CountOf(res.feedbacks, "NIT")>>)
                      ELSE None,
     sections |-> <<[heading |-> "HIGH", entries |-> GetFeedbacksByPriority(res, "HIGH")],
                    [heading |-> "MEDIUM", entries |-> GetFeedbacksByPriority(res, "MEDIUM")],
                    [heading |-> "LOW", entries |-> GetFeedbacksByPriority(res, "LOW")],
                    [heading |-> "NIT", entries |-> GetFeedbacksByPriority(res, "NIT")]>>,
     positives |-> res.positives]

\* ReviewResult.to_markdown: the parts of the report that depend on the
\* feedback, section by section (the summary text is not rendered)
ToMarkdown(res) ==
    [status |-> OverallStatus(res),
     issue_counts |-> IF res.feedbacks # <<>>
                      THEN Some(<<CountOf(res.feedbacks, "HIGH"), CountOf(res.feedbacks, "MEDIUM"),
                                  CountOf(res.feedbacks, "LOW"), CountOf(res.feedbacks, "NIT")>>)
                      ELSE None,
     sections |-> SelectSeq(
         <<[heading |-> "HIGH", entries |-> GetFeedbacksByPriority(res, "HIGH")],
           [heading |-> "MEDIUM", entries |-> GetFeedbacksByPriority(res, "MEDIUM")],
           [heading |-> "LOW", entries |-> GetFeedbacksByPriority(res, "LOW")],
           [heading |-> "NIT", entries |-> GetFeedbacksByPriority(res, "NIT")]>>,
         LAMBDA sec : sec.entries # <<>>),
     positives |-> res.positives]

ReviewEvent_BlocksOnMedium(res) ==
    IF HighPriorityCount(res) > 0 \/ CountOf(res.feedbacks, "MEDIUM") > 0
    THEN "REQUEST_CHANGES"
    ELSE "COMMENT"

\* run_review, lines 137-142: the review event
ReviewEvent(res) ==
    IF HighPriorityCount(res) > 0 THEN "REQUEST_CHANGES" ELSE "COMMENT"

Validate_SkipsRepo(cfg) ==
    (IF cfg.github_token = "" THEN <<"GITHUB_TOKEN is required">> ELSE <<>>)
    \o (IF cfg.openai_api_key = "" THEN <<"OPENAI_API_KEY is required">> ELSE <<>>)
    \o (IF cfg.pr_number = 0 THEN <<"PR_NUMBER is required">> ELSE <<>>)

\* Config.validate
Validate(cfg) ==
    (IF cfg.github_token = "" THEN <<"GITHUB_TOKEN is required">> ELSE <<>>)
    \o (IF cfg.openai_api_key = "" THEN <<"OPENAI_API_KEY is required">> ELSE <<>>)
    \o (IF cfg.pr_number = 0 THEN <<"PR_NUMBER is required">> ELSE <<>>)
    \o (IF cfg.repo = "" THEN <<"REPO is required">> ELSE <<>>)

-----------------------------------------------------------------------------
(* Spec: run_review                                                        *)

Configs ==
    [github_token : {"", "ghp_token"}, openai_api_key : {"", "sk-key"},
     pr_number : {0, 7}, repo : {"", "owner/repo"}, enable_storage : BOOLEAN]

\* the analyzers list of run_review, in its order
Analyzers == <<"structure", "static", "risk", "test", "doc", "convention">>

\* the analyzers that hand a regex of the configuration to re: the title
\* pattern (structure), the naming conventions (static), the custom security
\* patterns (risk)
ConfigRegexAnalyzers == {"structure", "static", "risk"}

\* the categories of the findings of each analyzer
AnalyzerCategories(name) ==
    CASE name = "structure" -> {"pr_structure"}
      [] name = "static" -> {"style"}
      [] name = "risk" -> {"security", "performance"}
      [] name = "test" -> {"testing"}
      [] name = "doc" -> {"documentation"}
      [] name = "convention" -> {"architecture"}

RECURSIVE SeqsOver(_, _)
SeqsOver(S, n) ==
    IF n = 0 THEN {<<>>}
    ELSE LET shorter == SeqsOver(S, n - 1)
         IN  shorter \cup {Append(q, x) : q \in {y \in shorter : Len(y) = n - 1}, x \in S}

\* what analyzer.analyze(context) may return
AnalyzerResults(name) ==
    SeqsOver({f \in FeedbackPool : f.category \in AnalyzerCategories(name)}, MaxPerAnalyzer)

\* the findings the external analyzer sends: one with the key of a rule-based
\* finding, one without file and with a severity label outside the four
FindingPool ==
    << Finding(Some("b.py"), Some(3), Some("high"), Some("security"), Some("Eval Usage"),
               Some("eval on user input")),
       Finding(None, None, Some("Critical"), Some("design"), Some("General"),
               Some("consider splitting this change")) >>

JsonObject ==
    JsonValue("dict", Some("Solid change overall"), Some(<<"Good naming">>), Some(FindingPool))

PlainText == Text("Looks good to me", None, None)
BrokenBlock == Text("{summary: oops", None, None)
FencedBroken == Text("Here you go: '''json {summary: oops '''", None, Some(BrokenBlock))
ObjectText == Text("{summary, positives, findings}", Some(JsonObject), None)
FencedObject == Text("Sure! '''json {summary, positives, findings} '''", None, Some(ObjectText))
EmptyObject == Text("{}", Some(JsonValue("dict", None, None, None)), None)
ArrayText == Text("[1, 2]", Some(JsonValue("list", None, None, None)), None)

\* message.content of an answer: absent, or one of the texts
Contents ==
    {None, Some(PlainText), Some(FencedBroken), Some(ObjectText), Some(FencedObject),
     Some(EmptyObject), Some(ArrayText)}

LlmOutcomes ==
    {LlmOutcome(TRUE, ApiOutcome(None, None))}
    \cup {LlmOutcome(FALSE, ApiOutcome(Some("Connection error."), None))}
    \cup {LlmOutcome(FALSE, ApiOutcome(None, c)) : c \in Contents}

Init ==
    /\ pc = "validate"
    /\ config \in Configs
    /\ exit_code = None
    /\ fetched = "no"
    /\ analyzer_idx = 0
    /\ analyzer_raised = None
    /\ all_feedbacks = <<>>
    /\ pattern_feedbacks = <<>>
    /\ llm_outcome = None
    /\ llm_result = <<>>
    /\ result = None
    /\ posted = None
    /\ post_failed = FALSE
    /\ stored = "no"
    /\ BesideRunIdle

\* lines 45-55: the configuration is validated; errors end the run with 1
ValidateConfig ==
    /\ pc = "validate"
    /\ IF Validate(config) # <<>>
       THEN exit_code' = Some(1) /\ pc' = "done"
       ELSE UNCHANGED exit_code /\ pc' = "fetch"
    /\ UNCHANGED <<config, fetched, analyzer_idx, analyzer_raised, all_feedbacks,
                   pattern_feedbacks, llm_outcome, llm_result, result, posted, post_failed,
                   stored, besideRun>>

\* lines 57-83: the PR, its files and its diff are fetched; an error of the
\* hosting service is caught at line 175 and ends the run with 1
FetchPullRequest ==
    /\ pc = "fetch"
    /\ \E ok \in BOOLEAN :
          IF ok
          THEN /\ fetched' = "ok"
               /\ analyzer_idx' = 1
               /\ UNCHANGED exit_code
               /\ pc' = "analyze"
          ELSE /\ fetched' = "failed"
               /\ exit_code' = Some(1)
               /\ UNCHANGED analyzer_idx
               /\ pc' = "done"
    /\ all_feedbacks' = <<>>
    /\ UNCHANGED <<config, analyzer_raised, pattern_feedbacks, llm_outcome, llm_result, result,
                   posted, post_failed, stored, besideRun>>

\* lines 94-99: one analyzer of the list runs and its findings are appended;
\* nothing in the loop catches an error of analyze(), which the structure,
\* static and risk analyzers raise when a regex of the configuration does not
\* compile (re.error), so that error is caught at line 175 and ends the run
\* with 1
RunAnalyzer ==
    /\ pc = "analyze"
    /\ \/ \E feedbacks \in AnalyzerResults(Analyzers[analyzer_idx]) :
             /\ all_feedbacks' = all_feedbacks \o feedbacks
             /\ IF analyzer_idx = Len(Analyzers)
                THEN /\ pattern_feedbacks' = all_feedbacks \o feedbacks
                     /\ UNCHANGED analyzer_idx
                     /\ pc' = "llm"
                ELSE analyzer_idx' = analyzer_idx + 1 /\ UNCHANGED <<pc, pattern_feedbacks>>
             /\ UNCHANGED <<exit_code, analyzer_raised>>
       \/ /\ Analyzers[analyzer_idx] \in ConfigRegexAnalyzers
          /\ analyzer_raised' = Some(Analyzers[analyzer_idx])
          /\ exit_code' = Some(1)
          /\ pc' = "done"
          /\ UNCHANGED <<analyzer_idx, all_feedbacks, pattern_feedbacks>>
    /\ UNCHANGED <<config, fetched, llm_outcome, llm_result, result, posted, post_failed,
                   stored, besideRun>>

\* lines 101-106: run_llm_analysis, which catches every error itself; its
\* findings are appended to those of the analyzers
RunLlm ==
    /\ pc = "llm"
    /\ \E outcome \in LlmOutcomes :
          LET res == RunLlmAnalysis(outcome)
          IN  /\ llm_outcome' = Some(outcome)
              /\ llm_result' = res
              /\ all_feedbacks' = all_feedbacks \o res[1]
              /\ pc' = "dedup"
    /\ UNCHANGED <<config, exit_code, fetched, analyzer_idx, analyzer_raised,
                   pattern_feedbacks, result, posted, post_failed, stored, besideRun>>

\* lines 108-109
DeduplicateAll ==
    /\ pc = "dedup"
    /\ all_feedbacks' = DeduplicateFeedbacks(all_feedbacks)
    /\ pc' = "result"
    /\ UNCHANGED <<config, exit_code, fetched, analyzer_idx, analyzer_raised,
                   pattern_feedbacks, llm_outcome, llm_result, result, posted, post_failed,
                   stored, besideRun>>

\* lines 111-131: the ReviewResult is built
CreateResult ==
    /\ pc = "result"
    /\ result' = Some([feedbacks |-> all_feedbacks, summary |-> llm_result[2],
                       positives |-> llm_result[3]])
    /\ pc' = "post"
    /\ UNCHANGED <<config, exit_code, fetched, analyzer_idx, analyzer_raised, all_feedbacks,
                   pattern_feedbacks, llm_outcome, llm_result, posted, post_failed, stored,
                   besideRun>>

\* lines 133-149: the report is rendered, the event chosen, the review handed
\* to the hosting service; an error there is caught at line 175
PostReview ==
    /\ pc = "post"
    /\ LET review == [body |-> ToMarkdown(result[1]), event |-> ReviewEvent(result[1])]
       IN  \E ok \in BOOLEAN :
              IF ok
              THEN /\ posted' = Some(review)
                   /\ pc' = IF config.enable_storage THEN "store" ELSE "finish"
                   /\ UNCHANGED <<exit_code, post_failed>>
              ELSE /\ post_failed' = TRUE
                   /\ exit_code' = Some(1)
                   /\ UNCHANGED posted
                   /\ pc' = "done"
    /\ UNCHANGED <<config, fetched, analyzer_idx, analyzer_raised, all_feedbacks,
                   pattern_feedbacks, llm_outcome, llm_result, result, stored, besideRun>>

\* the mutant in which a failure of the storage ends the run with 1
SaveReview_FailureEndsRun ==
    /\ pc = "store"
    /\ stored' = "failed"
    /\ exit_code' = Some(1)
    /\ pc' = "done"
    /\ UNCHANGED <<config, fetched, analyzer_idx, analyzer_raised, all_feedbacks,
                   pattern_feedbacks, llm_outcome, llm_result, result, posted, post_failed,
                   besideRun>>

\* lines 151-164: storage is enabled; ReviewResult has no to_mongo_dict, so
\* line 159 raises whenever the client could be built, and the handler of line
\* 163 reports the failure and goes on
SaveReview ==
    /\ pc = "store"
    /\ stored' = "failed"
    /\ pc' = "finish"
    /\ UNCHANGED <<config, exit_code, fetched, analyzer_idx, analyzer_raised, all_feedbacks,
                   pattern_feedbacks, llm_outcome, llm_result, result, posted, post_failed,
                   besideRun>>

\* lines 166-173
Finish ==
    /\ pc = "finish"
    /\ exit_code' = Some(0)
    /\ pc' = "done"
    /\ UNCHANGED <<config, fetched, analyzer_idx, analyzer_raised, all_feedbacks,
                   pattern_feedbacks, llm_outcome, llm_result, result, posted, post_failed,
                   stored, besideRun>>

Next ==
    \/ ValidateConfig
    \/ FetchPullRequest
    \/ RunAnalyzer
    \/ RunLlm
    \/ DeduplicateAll
    \/ CreateResult
    \/ PostReview
    \/ SaveReview
    \/ Finish

Spec == Init /\ [][Next]_vars


-----------------------------------------------------------------------------
(* What the claims about aggregation speak of                              *)

\* the position of the first entry of list with key k
FirstWithKey(list, k) ==
    CHOOSE i \in 1..Len(list) :
        DedupKey(list[i]) = k /\ \A j \in 1..(i - 1) : DedupKey(list[j]) # k

Rank(fb) ==
    CASE fb.priority = "HIGH" -> 0 [] fb.priority = "MEDIUM" -> 1
      [] fb.priority = "LOW" -> 2 [] fb.priority = "NIT" -> 3

\* the file names of the pool in lexicographic order; a finding without a file
\* name (file None or empty) stands before them all
NamesInOrder == <<"a.py", "ab.py", "b.py">>
FilePosition(fb) ==
    IF fb.file = None \/ fb.file = Some("") THEN 0
    ELSE CHOOSE n \in 1..Len(NamesInOrder) : NamesInOrder[n] = fb.file[1]

\* C6: for entries a before b of the output, rank(a) <= rank(b); with equal
\* ranks file(a) <= file(b), an absent file before every file name; with rank
\* and file equal, a preceded b in the input.
C6_SortedByRankThenFile ==
    dedup_calls >= 1 =>
        \A m, n \in 1..Len(fb_unique) : m < n =>
            LET a == fb_unique[m]
                b == fb_unique[n]
            IN  /\ Rank(a) <= Rank(b)
                /\ Rank(a) = Rank(b) => FilePosition(a) <= FilePosition(b)
                /\ (Rank(a) = Rank(b) /\ FilePosition(a) = FilePosition(b)) =>
                      FirstWithKey(fb_arg, DedupKey(a)) < FirstWithKey(fb_arg, DedupKey(b))

C6_Witness ==
    /\ dedup_calls = 1
    /\ Len(fb_unique) = 3
    /\ fb_unique # fb_arg
    /\ Rank(fb_unique[1]) = Rank(fb_unique[2])
    /\ 0 < FilePosition(fb_unique[1])
    /\ FilePosition(fb_unique[1]) < FilePosition(fb_unique[2])
    /\ Rank(fb_unique[2]) < Rank(fb_unique[3])

\* C7: aggregating the output of an aggregation returns it unchanged.
C7_Idempotent ==
    dedup_calls >= 2 => fb_unique = fb_arg

C7_Witness ==
    /\ dedup_calls = 2
    /\ fb_unique = fb_arg
    /\ fb_arg # fb_first
    /\ Len(fb_arg) >= 2

-----------------------------------------------------------------------------
(* What the claims about the external semantic analyzer speak of           *)

\* a text that is a JSON object, or wraps a fenced json block that is one
RECURSIVE IsJsonObjectText(_)
IsJsonObjectText(text) ==
    IF text.json # None THEN text.json[1].type = "dict"
    ELSE text.fenced # None /\ IsJsonObjectText(text.fenced[1])

\* a response that is malformed or not JSON, the absent body included
IsMalformed(content) == content = None \/ ~IsJsonObjectText(content[1])

\* the external analyzer failed: constructing the client, the call, or the
\* payload
LlmFailed(outcome) ==
    \/ outcome.ctor_raises
    \/ outcome.api.call_error # None
    \/ IsMalformed(outcome.api.content)

HasFailureNote(summary) == StartsWith(summary, "AI analysis failed")

\* the raw text of a response; an absent body has none
RawText(content) == IF content = None THEN "" ELSE content[1].raw

LlmHasRun == llm_outcome # None

\* C8: whenever the external semantic analyzer fails (constructing the client,
\* during the call, or by an unparseable payload), the run does not abort: what
\* goes into aggregation is the findings of the rule-based analyzers alone, the
\* feedback of the result is their deduplicated and sorted sequence, and the
\* run goes on to render and post the review; it finishes with exit code 0
\* unless the hosting service itself refuses the review.
C8_LlmFailureIsIsolated ==
    (LlmHasRun /\ LlmFailed(llm_outcome[1])) =>
        /\ llm_result[1] = <<>>
        /\ pc = "dedup" => all_feedbacks = pattern_feedbacks
        /\ pc \in {"result", "post", "store", "finish", "done"} =>
              all_feedbacks = DeduplicateFeedbacks(pattern_feedbacks)
        /\ result # None => result[1].feedbacks = DeduplicateFeedbacks(pattern_feedbacks)
        /\ pc = "done" =>
              /\ result # None
              /\ posted # None \/ post_failed
              /\ posted # None =>
                    /\ exit_code = Some(0)
                    /\ posted[1].body = ToMarkdown(result[1])
              /\ exit_code = Some(1) => post_failed

C8_Witness ==
    /\ pc = "done"
    /\ LlmHasRun
    /\ ~llm_outcome[1].ctor_raises
    /\ llm_outcome[1].api.call_error # None
    /\ Len(pattern_feedbacks) >= 3
    /\ DeduplicateFeedbacks(pattern_feedbacks) # pattern_feedbacks
    /\ result[1].feedbacks = DeduplicateFeedbacks(pattern_feedbacks)
    /\ posted # None
    /\ exit_code = Some(0)

\* C9: whenever the external semantic analyzer fails in any way (constructing
\* the client, a network or API error during the call, an unparseable payload),
\* the summary of the resulting ReviewResult contains a failure note.
C9_FailureNoteInSummary ==
    (result # None /\ LlmFailed(llm_outcome[1])) => HasFailureNote(result[1].summary)

\* C10: for every response of the external analyzer that is malformed or not
\* JSON (plain text, text wrapping a fenced json block that does not parse,
\* valid JSON that is not an object, an absent body), analyze_code returns zero
\* findings and the raw response text as the summary.
C10_MalformedDegradesToRawText ==
    (/\ LlmHasRun
     /\ ~llm_outcome[1].ctor_raises
     /\ llm_outcome[1].api.call_error = None
     /\ IsMalformed(llm_outcome[1].api.content)) =>
        /\ llm_result[1] = <<>>
        /\ llm_result[2] = RawText(llm_outcome[1].api.content)

-----------------------------------------------------------------------------
(* SizeSpec: PRMetrics.size_category (models/review.py)                    *)

SizeCategory_FilesOnly(m) ==
    IF m.files_changed <= 3 THEN "XS"
    ELSE IF m.files_changed <= 5 THEN "S"
    ELSE IF m.files_changed <= 10 THEN "M"
    ELSE IF m.files_changed <= 20 THEN "L"
    ELSE "XL"

\* PRMetrics.size_category
SizeCategory(m) ==
    IF m.files_changed <= 3 /\ m.total_changes <= 50 THEN "XS"
    ELSE IF m.files_changed <= 5 /\ m.total_changes <= 150 THEN "S"
    ELSE IF m.files_changed <= 10 /\ m.total_changes <= 300 THEN "M"
    ELSE IF m.files_changed <= 20 /\ m.total_changes <= 500 THEN "L"
    ELSE "XL"

\* the PRMetrics run_review builds (lines 112-119), as far as size_category
\* reads it
MetricsValues ==
    [files_changed : 0..MaxFilesChanged, total_changes : 0..MaxTotalChanges]

SizeInit ==
    /\ metrics \in MetricsValues
    /\ size = None
    /\ BesideSizeIdle

\* metrics.size_category is read
ReadSizeCategory ==
    /\ size = None
    /\ size' = Some(SizeCategory(metrics))
    /\ UNCHANGED <<metrics, besideSize>>

SizeNext == ReadSizeCategory

SizeSpec == SizeInit /\ [][SizeNext]_vars

\* the buckets of the size classification, smallest first
Buckets ==
    << [name |-> "XS", files |-> 3, changes |-> 50],
       [name |-> "S", files |-> 5, changes |-> 150],
       [name |-> "M", files |-> 10, changes |-> 300],
       [name |-> "L", files |-> 20, changes |-> 500] >>

FitsBucket(m, i) ==
    m.files_changed <= Buckets[i].files /\ m.total_changes <= Buckets[i].changes

\* C11: for every pair (files_changed, total_changes), size_category returns
\* the smallest of the buckets XS, S, M, L whose two bounds are both satisfied,
\* and XL when none is; 25 files and 600 changed lines classify as XL.
C11_SmallestFittingBucket ==
    size # None =>
        /\ \A i \in 1..Len(Buckets) :
              (FitsBucket(metrics, i) /\ \A j \in 1..(i - 1) : ~FitsBucket(metrics, j))
                  => size[1] = Buckets[i].name
        /\ (\A i \in 1..Len(Buckets) : ~FitsBucket(metrics, i)) => size[1] = "XL"
        /\ (metrics.files_changed = 25 /\ metrics.total_changes = 600) => size[1] = "XL"

C11_Witness ==
    /\ size = Some("XL")
    /\ metrics.files_changed = 25
    /\ metrics.total_changes = 600

-----------------------------------------------------------------------------
(* What the claims about the status and the verdict speak of               *)

\* the number of entries of a feedback sequence that have the severity
SeverityCount(feedbacks, severity) ==
    Cardinality({i \in 1..Len(feedbacks) : feedbacks[i].priority = severity})

\* the status the counts call for
StatusOfCounts(high, medium, low, nit) ==
    IF high > 0 THEN "Changes Requested"
    ELSE IF medium > 0 THEN "Needs Attention"
    ELSE IF low > 0 \/ nit > 0 THEN "Looking Good"
    ELSE "Approved"

\* C12: the overall status of a ReviewResult is a function of its per-severity
\* counts only: changes requested if the HIGH count is > 0, otherwise needs
\* attention if the MEDIUM count is > 0, otherwise looking good if the LOW or
\* NIT count is > 0, otherwise approved; it is approved if and only if the
\* feedback sequence is empty.
C12_StatusFromCounts ==
    posted # None =>
        LET fbs == result[1].feedbacks
            status == posted[1].body.status
        IN  /\ status = StatusOfCounts(SeverityCount(fbs, "HIGH"), SeverityCount(fbs, "MEDIUM"),
                                       SeverityCount(fbs, "LOW"), SeverityCount(fbs, "NIT"))
            /\ status = "Approved" <=> fbs = <<>>

C12_Witness ==
    /\ posted # None
    /\ result[1].feedbacks # <<>>
    /\ \A i \in 1..Len(result[1].feedbacks) : result[1].feedbacks[i].priority = "NIT"
    /\ posted[1].body.status = "Looking Good"

VerdictMatchesStatus ==
    posted # None =>
        /\ posted[1].event \in {"REQUEST_CHANGES", "COMMENT"}
        /\ posted[1].event = "REQUEST_CHANGES" <=> posted[1].body.status = "Changes Requested"
        /\ posted[1].event = "REQUEST_CHANGES"
              <=> SeverityCount(result[1].feedbacks, "HIGH") > 0
        /\ result[1].feedbacks = all_feedbacks

\* C13: in every run that posts a review, the verdict handed to the posting
\* collaborator is REQUEST_CHANGES if and only if the overall status of the
\* same ReviewResult is changes requested (HIGH count > 0 in the final
\* deduplicated feedback), and nothing sets the verdict again afterwards.
C13_VerdictFromStatus ==
    /\ []VerdictMatchesStatus
    /\ [][posted # None => (posted' = posted /\ result' = result)]_vars

C13_Witness ==
    /\ pc = "done"
    /\ exit_code = Some(0)
    /\ posted # None
    /\ posted[1].event = "COMMENT"
    /\ posted[1].body.status = "Needs Attention"

-----------------------------------------------------------------------------
(* What the claim about configuration errors speaks of                     *)

\* a required field is absent: hosting token, analyzer API key, PR number,
\* repository
MissingRequired(cfg) ==
    \/ cfg.github_token = ""
    \/ cfg.openai_api_key = ""
    \/ cfg.pr_number = 0
    \/ cfg.repo = ""

NothingDone ==
    /\ fetched = "no"
    /\ analyzer_idx = 0
    /\ analyzer_raised = None
    /\ all_feedbacks = <<>>
    /\ llm_outcome = None
    /\ result = None
    /\ posted = None
    /\ ~post_failed
    /\ stored = "no"

\* C19: if any required field (hosting token, analyzer API key, PR number,
\* repository) is absent, run_review returns exit code 1 as its first step,
\* before any analysis begins: in that run no PR data is fetched, no analyzer
\* and no external analysis runs, and no review is posted or stored.
C19_ConfigErrorStopsRun ==
    /\ [](MissingRequired(config) =>
            /\ pc \in {"validate", "done"}
            /\ NothingDone
            /\ pc = "done" => exit_code = Some(1))
    /\ [][(pc = "validate" /\ MissingRequired(config)) =>
            (pc' = "done" /\ exit_code' = Some(1))]_vars

C19_Witness ==
    /\ pc = "done"
    /\ exit_code = Some(1)
    /\ config.repo = ""
    /\ config.github_token # ""
    /\ config.openai_api_key # ""
    /\ config.pr_number # 0
    /\ NothingDone

-----------------------------------------------------------------------------
(* Python's re, as far as the analyzers use it                             *)
(*                                                                         *)
(* A pattern is the tree re compiles it to: a node is a record whose op    *)
(* names the construct. A match of a node at position i of a text is       *)
(* described by the set of positions at which it can end (the position of  *)
(* the character after the match).                                         *)

\* the flags of a call: re.IGNORECASE, re.MULTILINE
Flags(ignorecase, multiline) == [ignorecase |-> ignorecase, multiline |-> multiline]
NoFlags == Flags(FALSE, FALSE)

\* a literal character of the pattern against a character of the text
CharMatches(c, lit, flags) ==
    c = lit \/ (flags.ignorecase /\ LowerChar(c) = LowerChar(lit))

\* a character of the text against a character set [...] of the pattern
InCharSet(c, chars, flags) ==
    \/ c \in chars
    \/ flags.ignorecase /\ (LowerChar(c) \in chars \/ UpperChar(c) \in chars)

\* the character ranges A-Z and a-z and the classes \w and \s
UpperChars == {CharAt(UpperLetters, k) : k \in 1..Len(UpperLetters)}
LowerChars == {CharAt(LowerLetters, k) : k \in 1..Len(LowerLetters)}
WordChars == UpperChars \cup LowerChars \cup Digits \cup {"_"}
SpaceChars == {" ", "\t", "\n", "\r", "\f"}

IsWordAt(text, i) == i >= 1 /\ i <= Len(text) /\ CharAt(text, i) \in WordChars

\* the zero-width assertions \b, ^ and $
AtHolds(where, text, i, flags) ==
    CASE where = "boundary" -> IsWordAt(text, i - 1) # IsWordAt(text, i)
      [] where = "beginning" ->
            i = 1 \/ (flags.multiline /\ CharAt(text, i - 1) = "\n")
      [] where = "end" ->
            \/ i = Len(text) + 1
            \/ i = Len(text) /\ CharAt(text, i) = "\n"
            \/ flags.multiline /\ i <= Len(text) /\ CharAt(text, i) = "\n"

\* the nodes of a pattern tree
Str(s) == [op |-> "str", s |-> s]
NotLiteral(c) == [op |-> "not_literal", c |-> c]
AnyChar == [op |-> "any"]
In(chars) == [op |-> "in", chars |-> chars, negate |-> FALSE]
NotIn(chars) == [op |-> "in", chars |-> chars, negate |-> TRUE]
Concat(items) == [op |-> "seq", items |-> items]
Branch(items) == [op |-> "branch", items |-> items]
Repeat(min, max, item) == [op |-> "repeat", min |-> min, max |-> max, item |-> item]
At(where) == [op |-> "at", where |-> where]
NotAhead(item) == [op |-> "assert_not", ahead |-> TRUE, item |-> item]
NotBehind(item) == [op |-> "assert_not", ahead |-> FALSE, item |-> item]

RECURSIVE Ends(_, _, _, _)
RECURSIVE SeqEnds(_, _, _, _, _)
RECURSIVE RepeatEnds(_, _, _, _, _)

\* the items of a sequence from the k-th on, started at each position of from
SeqEnds(items, k, text, from, flags) ==
    IF k > Len(items) \/ from = {} THEN from
    ELSE SeqEnds(items, k + 1, text,
                 UNION {Ends(items[k], text, j, flags) : j \in from}, flags)

\* item{min,max} after count repetitions that ended at the positions of from;
\* max = -1 is no upper limit
RepeatEnds(node, count, text, from, flags) ==
    LET here == IF count >= node.min THEN from ELSE {}
        next == UNION {IF count >= node.min
                       THEN Ends(node.item, text, j, flags) \ {j}
                       ELSE Ends(node.item, text, j, flags) : j \in from}
    IN  IF from = {} THEN {}
        ELSE IF node.max # -1 /\ count >= node.max THEN here
        ELSE here \cup RepeatEnds(node, count + 1, text, next, flags)

Ends(node, text, i, flags) ==
    CASE node.op = "str" ->
            IF /\ i + Len(node.s) - 1 <= Len(text)
               /\ \A k \in 1..Len(node.s) :
                     CharMatches(CharAt(text, i + k - 1), CharAt(node.s, k), flags)
            THEN {i + Len(node.s)} ELSE {}
      [] node.op = "not_literal" ->
            IF i <= Len(text) /\ ~CharMatches(CharAt(text, i), node.c, flags)
            THEN {i + 1} ELSE {}
      [] node.op = "any" ->
            IF i <= Len(text) /\ CharAt(text, i) # "\n" THEN {i + 1} ELSE {}
      [] node.op = "in" ->
            IF i <= Len(text) /\ (InCharSet(CharAt(text, i), node.chars, flags) # node.negate)
            THEN {i + 1} ELSE {}
      [] node.op = "seq" -> SeqEnds(node.items, 1, text, {i}, flags)
      [] node.op = "branch" ->
            UNION {Ends(node.items[k], text, i, flags) : k \in 1..Len(node.items)}
      [] node.op = "repeat" -> RepeatEnds(node, 0, text, {i}, flags)
      [] node.op = "at" -> IF AtHolds(node.where, text, i, flags) THEN {i} ELSE {}
      [] node.op = "assert_not" ->
            IF node.ahead
            THEN IF Ends(node.item, text, i, flags) = {} THEN {i} ELSE {}
            ELSE IF \E j \in 1..i : i \in Ends(node.item, text, j, flags) THEN {} ELSE {i}

\* a sequence without the later occurrences of its entries
RECURSIVE FirstOccurrences(_, _)
FirstOccurrences(q, seen) ==
    IF q = <<>> THEN <<>>
    ELSE IF Head(q) \in seen THEN FirstOccurrences(Tail(q), seen)
    ELSE <<Head(q)>> \o FirstOccurrences(Tail(q), seen \cup {Head(q)})

RECURSIVE EndsInOrder(_, _, _, _)
RECURSIVE EndsFromEach(_, _, _, _)
RECURSIVE SeqEndsInOrder(_, _, _, _, _)
RECURSIVE BranchEndsInOrder(_, _, _, _, _)
RECURSIVE RepeatEndsInOrder(_, _, _, _, _)
RECURSIVE RepeatFromEach(_, _, _, _, _)

\* the ends of the matches of a node at position i in the order in which the
\* backtracking matcher tries them: the first one is the match re reports.
\* What follows a position does not depend on how the matcher got there, so a
\* position reached again later in the order is dropped.
EndsFromEach(node, text, from, flags) ==
    IF from = <<>> THEN <<>>
    ELSE EndsInOrder(node, text, Head(from), flags)
         \o EndsFromEach(node, text, Tail(from), flags)

SeqEndsInOrder(items, k, text, from, flags) ==
    IF k > Len(items) \/ from = <<>> THEN from
    ELSE SeqEndsInOrder(items, k + 1, text,
                        FirstOccurrences(EndsFromEach(items[k], text, from, flags), {}), flags)

\* the alternatives are tried from left to right
BranchEndsInOrder(items, k, text, i, flags) ==
    IF k > Len(items) THEN <<>>
    ELSE EndsInOrder(items[k], text, i, flags) \o BranchEndsInOrder(items, k + 1, text, i, flags)

RepeatFromEach(node, count, text, from, flags) ==
    IF from = <<>> THEN <<>>
    ELSE RepeatEndsInOrder(node, count, text, Head(from), flags)
         \o RepeatFromEach(node, count, text, Tail(from), flags)

\* a greedy repetition tries one more repetition before it tries to stop
RepeatEndsInOrder(node, count, text, i, flags) ==
    LET here == IF count >= node.min THEN <<i>> ELSE <<>>
        once == SelectSeq(EndsInOrder(node.item, text, i, flags),
                          LAMBDA j : count < node.min \/ j # i)
        more == IF node.max # -1 /\ count >= node.max THEN <<>>
                ELSE RepeatFromEach(node, count + 1, text, once, flags)
    IN  FirstOccurrences(more \o here, {})

EndsInOrder(node, text, i, flags) ==
    CASE node.op = "seq" -> SeqEndsInOrder(node.items, 1, text, <<i>>, flags)
      [] node.op = "branch" ->
            FirstOccurrences(BranchEndsInOrder(node.items, 1, text, i, flags), {})
      [] node.op = "repeat" -> RepeatEndsInOrder(node, 0, text, i, flags)
      [] OTHER ->
            \* a node that matches one way at most
            LET ends == Ends(node, text, i, flags)
            IN  IF ends = {} THEN <<>> ELSE <<CHOOSE j \in ends : TRUE>>

\* the ends of the matches at position i in the order of the matcher; after an
\* empty match at a position the next match at that position must not be empty
MatchEndsAt(ast, text, i, flags, must_advance) ==
    SelectSeq(EndsInOrder(ast, text, i, flags), LAMBDA j : ~must_advance \/ j # i)

\* re.finditer(pattern, text, flags): the spans [start, end) of the matches,
\* from position pos on
RECURSIVE FindIterFrom(_, _, _, _, _)
FindIterFrom(ast, text, pos, flags, must_advance) ==
    LET starts == {i \in pos..(Len(text) + 1) :
                      MatchEndsAt(ast, text, i, flags, must_advance /\ i = pos) # <<>>}
    IN  IF starts = {} THEN <<>>
        ELSE LET start == CHOOSE i \in starts : \A j \in starts : i <= j
                 end == MatchEndsAt(ast, text, start, flags, must_advance /\ start = pos)[1]
             IN  <<[start |-> start, end |-> end]>>
                 \o FindIterFrom(ast, text, end, flags, end = start)

FindIter(ast, text, flags) == FindIterFrom(ast, text, 1, flags, FALSE)

\* re.search(pattern, text, flags) finds a match
Search(ast, text, flags) ==
    \E i \in 1..(Len(text) + 1) : Ends(ast, text, i, flags) # {}

\* re.match(pattern, text, flags) finds a match
Match(ast, text, flags) == Ends(ast, text, 1, flags) # {}

-----------------------------------------------------------------------------
(* The rule tables of the analyzers and their patterns, compiled          *)
(*                                                                         *)
(* The texts are those of the source; a backquote in a text is written as  *)
(* an apostrophe and a character outside ASCII as a question mark.         *)

\* RiskAnalyzer.BUILTIN_PATTERNS
BUILTIN_PATTERNS ==
    << [name |-> "SQL Injection (String Format)",
        regex |-> "execute\\s*\\(\\s*f[\"\\']|execute\\s*\\([^)]*%|execute\\s*\\([^)]*\\.format\\(",
        severity |-> "HIGH",
        category |-> "security",
        message |-> "Potential SQL injection vulnerability. User input may be directly interpolated into SQL query.",
        suggestion |-> "Use parameterized queries: 'cursor.execute('SELECT * FROM users WHERE id = ?', (user_id,))'"],
       [name |-> "SQL Injection (String Concat)",
        regex |-> "[\"\\']SELECT\\s.*[\"\\']\\s*\\+|[\"\\']INSERT\\s.*[\"\\']\\s*\\+|[\"\\']UPDATE\\s.*[\"\\']\\s*\\+|[\"\\']DELETE\\s.*[\"\\']\\s*\\+",
        severity |-> "HIGH",
        category |-> "security",
        message |-> "Potential SQL injection. SQL query is being built with string concatenation.",
        suggestion |-> "Use parameterized queries or an ORM instead of string concatenation."],
       [name |-> "XSS - innerHTML",
        regex |-> "\\.innerHTML\\s*=(?!\\s*[\"\\'][\"\\'])",
        severity |-> "HIGH",
        category |-> "security",
        message |-> "Setting innerHTML with dynamic content can lead to XSS vulnerabilities.",
        suggestion |-> "Use textContent for text, or sanitize HTML content before insertion."],
       [name |-> "XSS - dangerouslySetInnerHTML",
        regex |-> "dangerouslySetInnerHTML\\s*=\\s*\\{",
        severity |-> "MEDIUM",
        category |-> "security",
        message |-> "Using dangerouslySetInnerHTML - ensure content is properly sanitized.",
        suggestion |-> "Sanitize HTML using DOMPurify or similar library before rendering."],
       [name |-> "Hardcoded Credentials",
        regex |-> "(password|passwd|pwd|secret|api_key|apikey|api_secret|auth_token|access_token)\\s*=\\s*[\"\\'][^\"\\']{8,}[\"\\']",
        severity |-> "HIGH",
        category |-> "security",
        message |-> "Possible hardcoded credential or secret detected.",
        suggestion |-> "Move secrets to environment variables or a secure vault."],
       [name |-> "Hardcoded AWS Key",
        regex |-> "AKIA[0-9A-Z]{16}",
        severity |-> "HIGH",
        category |-> "security",
        message |-> "Possible AWS Access Key ID detected in code.",
        suggestion |-> "Remove hardcoded AWS keys. Use IAM roles or environment variables."],
       [name |-> "Private Key",
        regex |-> "-----BEGIN\\s+(RSA\\s+)?PRIVATE\\s+KEY-----",
        severity |-> "HIGH",
        category |-> "security",
        message |-> "Private key detected in code!",
        suggestion |-> "Never commit private keys. Add to .gitignore and use secrets management."],
       [name |-> "Eval Usage",
        regex |-> "\\beval\\s*\\([^)]+\\)",
        severity |-> "MEDIUM",
        category |-> "security",
        message |-> "Use of eval() can execute arbitrary code and is a security risk.",
        suggestion |-> "Avoid eval(). Use safer alternatives like JSON.parse() or ast.literal_eval()."],
       [name |-> "Exec Usage",
        regex |-> "\\bexec\\s*\\([^)]+\\)",
        severity |-> "MEDIUM",
        category |-> "security",
        message |-> "Use of exec() can execute arbitrary code and is a security risk.",
        suggestion |-> "Avoid exec(). Consider restructuring code to avoid dynamic code execution."],
       [name |-> "Shell Injection",
        regex |-> "subprocess\\.(call|run|Popen)\\s*\\([^)]*shell\\s*=\\s*True",
        severity |-> "HIGH",
        category |-> "security",
        message |-> "Using shell=True with subprocess can lead to shell injection.",
        suggestion |-> "Use shell=False and pass arguments as a list: subprocess.run(['cmd', 'arg1'])"],
       [name |-> "os.system Usage",
        regex |-> "os\\.system\\s*\\([^)]+\\)",
        severity |-> "MEDIUM",
        category |-> "security",
        message |-> "os.system() is vulnerable to shell injection.",
        suggestion |-> "Use subprocess.run() with shell=False instead."],
       [name |-> "Pickle Deserialization",
        regex |-> "pickle\\.loads?\\s*\\(",
        severity |-> "MEDIUM",
        category |-> "security",
        message |-> "Pickle deserialization can execute arbitrary code if data is untrusted.",
        suggestion |-> "Only unpickle data from trusted sources. Consider using JSON for untrusted data."],
       [name |-> "Debug Mode in Production",
        regex |-> "DEBUG\\s*=\\s*True|app\\.run\\([^)]*debug\\s*=\\s*True",
        severity |-> "MEDIUM",
        category |-> "security",
        message |-> "Debug mode should be disabled in production.",
        suggestion |-> "Use environment variable: DEBUG = os.getenv('DEBUG', 'False') == 'True'"],
       [name |-> "Console.log with Sensitive Data",
        regex |-> "console\\.log\\([^)]*(?:password|secret|token|key|credential)",
        severity |-> "LOW",
        category |-> "security",
        message |-> "Logging potentially sensitive data to console.",
        suggestion |-> "Remove or redact sensitive data from logs."] >>

\* RiskAnalyzer.PERFORMANCE_PATTERNS
PERFORMANCE_PATTERNS ==
    << [name |-> "N+1 Query Pattern",
        regex |-> "for\\s+\\w+\\s+in\\s+\\w+[^:]*:\\s*\\n\\s*.*\\.(query|execute|find|get|fetch)",
        severity |-> "MEDIUM",
        category |-> "performance",
        message |-> "Possible N+1 query pattern detected - database query inside a loop.",
        suggestion |-> "Fetch all needed data before the loop, or use eager loading/joins."],
       [name |-> "Synchronous File Read in Loop",
        regex |-> "for\\s+\\w+\\s+in\\s+\\w+[^:]*:\\s*\\n\\s*.*open\\s*\\(",
        severity |-> "LOW",
        category |-> "performance",
        message |-> "File operations inside a loop can be slow.",
        suggestion |-> "Consider batching file operations or using async I/O."],
       [name |-> "Large List Append Loop",
        regex |-> "for\\s+\\w+\\s+in\\s+\\w+[^:]*:\\s*\\n\\s*\\w+\\.append\\(",
        severity |-> "NIT",
        category |-> "performance",
        message |-> "Building list with append in loop - consider list comprehension.",
        suggestion |-> "Use list comprehension: [item for item in iterable]"],
       [name |-> "String Concatenation in Loop",
        regex |-> "for\\s+\\w+\\s+in\\s+\\w+[^:]*:\\s*\\n\\s*\\w+\\s*\\+=\\s*[\"\\']",
        severity |-> "LOW",
        category |-> "performance",
        message |-> "String concatenation in loop is inefficient in Python.",
        suggestion |-> "Use ''.join(list_of_strings) instead."],
       [name |-> "Blocking API Call",
        regex |-> "requests\\.(get|post|put|delete|patch)\\s*\\(",
        severity |-> "NIT",
        category |-> "performance",
        message |-> "Synchronous HTTP request detected.",
        suggestion |-> "Consider using async HTTP client (httpx, aiohttp) for better concurrency."] >>

\* SecurityConfig.patterns, the default: a list of SecurityPattern
DefaultSecurityPatterns ==
    << [name |-> "SQL Injection",
        regex |-> "execute\\(.*[+%].*\\)|f\".*SELECT.*\\{.*\\}\"",
        severity |-> "HIGH",
        description |-> "Potential SQL injection vulnerability"],
       [name |-> "XSS Risk",
        regex |-> "innerHTML\\s*=|dangerouslySetInnerHTML|v-html",
        severity |-> "HIGH",
        description |-> "Potential XSS vulnerability"],
       [name |-> "Hardcoded Secret",
        regex |-> "(password|secret|api_key|apikey|token)\\s*=\\s*[\"\\'][^\"\\']{8,}[\"\\']",
        severity |-> "HIGH",
        description |-> "Possible hardcoded secret or credential"],
       [name |-> "Eval Usage",
        regex |-> "\\beval\\s*\\(|\\bexec\\s*\\(",
        severity |-> "MEDIUM",
        description |-> "Use of eval/exec can be dangerous"] >>

\* StaticAnalyzer.ANTI_PATTERNS["python"]
ANTI_PATTERNS_python ==
    << [name |-> "Bare except",
        regex |-> "except\\s*:",
        message |-> "Bare except clause catches all exceptions including KeyboardInterrupt.",
        suggestion |-> "Use specific exceptions: 'except Exception:' or 'except ValueError:'",
        priority |-> "MEDIUM"],
       [name |-> "Mutable default argument",
        regex |-> "def\\s+\\w+\\s*\\([^)]*=\\s*(\\[\\]|\\{\\})\\s*[,)]",
        message |-> "Mutable default argument can lead to unexpected behavior.",
        suggestion |-> "Use None as default: 'def func(items=None): items = items or []'",
        priority |-> "MEDIUM"],
       [name |-> "Star import",
        regex |-> "from\\s+\\w+\\s+import\\s+\\*",
        message |-> "Star imports pollute the namespace and make code harder to understand.",
        suggestion |-> "Import specific names: 'from module import name1, name2'",
        priority |-> "LOW"],
       [name |-> "TODO without issue",
        regex |-> "#\\s*TODO(?!.*#\\d+|.*issue|.*ticket)",
        message |-> "TODO comment without linked issue.",
        suggestion |-> "Link to an issue: '# TODO(#123): description'",
        priority |-> "NIT"],
       [name |-> "FIXME in code",
        regex |-> "#\\s*FIXME",
        message |-> "FIXME comment indicates broken code that should be fixed.",
        suggestion |-> "Fix the issue or create a tracked issue for it.",
        priority |-> "LOW"],
       [name |-> "Magic number",
        regex |-> "(?<![\\w.])\\b(?!0|1|2|10|100|1000|True|False)\\d{2,}\\b(?!\\s*[:\\]\\)])",
        message |-> "Magic number found. Consider using a named constant.",
        suggestion |-> "Define a constant: 'MAX_RETRIES = 5'",
        priority |-> "NIT"],
       [name |-> "Print statement",
        regex |-> "^\\s*print\\s*\\(",
        message |-> "Print statement found. Consider using logging instead.",
        suggestion |-> "Use logging module: 'logger.info()' or 'logger.debug()'",
        priority |-> "NIT"] >>

\* StaticAnalyzer.ANTI_PATTERNS["javascript"]
ANTI_PATTERNS_javascript ==
    << [name |-> "Console.log",
        regex |-> "console\\.(log|debug|info)\\s*\\(",
        message |-> "Console statement found. Should be removed before production.",
        suggestion |-> "Remove console statements or use a proper logger.",
        priority |-> "LOW"],
       [name |-> "var keyword",
        regex |-> "\\bvar\\s+\\w+",
        message |-> "Using 'var' instead of 'let' or 'const'.",
        suggestion |-> "Use 'const' for constants, 'let' for variables.",
        priority |-> "LOW"],
       [name |-> "== comparison",
        regex |-> "[^!=]==[^=]",
        message |-> "Using loose equality (==) instead of strict equality (===).",
        suggestion |-> "Use strict equality === for type-safe comparison.",
        priority |-> "LOW"],
       [name |-> "TODO without issue",
        regex |-> "//\\s*TODO(?!.*#\\d+|.*issue|.*ticket)",
        message |-> "TODO comment without linked issue.",
        suggestion |-> "Link to an issue: '// TODO(#123): description'",
        priority |-> "NIT"],
       [name |-> "Alert usage",
        regex |-> "\\balert\\s*\\(",
        message |-> "Using alert() - should be removed for production.",
        suggestion |-> "Use a proper modal/dialog component.",
        priority |-> "MEDIUM"] >>

\* StaticAnalyzer.ANTI_PATTERNS["typescript"]
ANTI_PATTERNS_typescript ==
    << [name |-> "Any type",
        regex |-> ":\\s*any\\b",
        message |-> "Using 'any' type defeats the purpose of TypeScript.",
        suggestion |-> "Use a specific type or 'unknown' if type is truly unknown.",
        priority |-> "LOW"],
       [name |-> "Type assertion with as any",
        regex |-> "as\\s+any\\b",
        message |-> "Type assertion to 'any' bypasses type checking.",
        suggestion |-> "Use proper type narrowing or a more specific type.",
        priority |-> "LOW"],
       [name |-> "Non-null assertion",
        regex |-> "\\w+![\\.\\[]",
        message |-> "Non-null assertion (!) can hide potential null errors.",
        suggestion |-> "Use optional chaining (?.) or proper null checks.",
        priority |-> "NIT"] >>

\* StaticAnalyzer.ANTI_PATTERNS.get(language, [])
ANTI_PATTERNS(language) ==
    CASE language = "python" -> ANTI_PATTERNS_python
      [] language = "javascript" -> ANTI_PATTERNS_javascript
      [] language = "typescript" -> ANTI_PATTERNS_typescript
      [] OTHER -> <<>>

\* StaticAnalyzer.EXTENSION_MAP.get(extension): the language, None for other extensions
EXTENSION_MAP(extension) ==
    CASE extension = "py" -> Some("python")
      [] extension = "js" -> Some("javascript")
      [] extension = "jsx" -> Some("javascript")
      [] extension = "ts" -> Some("typescript")
      [] extension = "tsx" -> Some("typescript")
      [] extension = "mjs" -> Some("javascript")
      [] extension = "cjs" -> Some("javascript")
      [] OTHER -> None

\* ConventionAnalyzer.ARCHITECTURE_PATTERNS
ARCHITECTURE_PATTERNS ==
    << [name |-> "Direct Database Access in Controller",
        file_pattern |-> "(controller|view|handler)\\.",
        code_pattern |-> "(cursor\\.execute|\\.query\\(|db\\.(find|insert|update|delete))",
        message |-> "Direct database access in controller layer violates separation of concerns.",
        suggestion |-> "Move database logic to a service or repository layer.",
        priority |-> "MEDIUM"],
       [name |-> "Business Logic in Model",
        file_pattern |-> "models?\\.",
        code_pattern |-> "(def\\s+(?!__)\\w+.*\\n\\s+.*(?:if|for|while|try))",
        message |-> "Complex business logic in model file. Models should primarily define structure.",
        suggestion |-> "Consider moving complex logic to a service layer.",
        priority |-> "LOW"],
       [name |-> "HTTP Request in Service",
        file_pattern |-> "service\\.",
        code_pattern |-> "(requests\\.(get|post)|fetch\\(|axios\\.)",
        message |-> "HTTP requests in service layer.",
        suggestion |-> "Consider creating a dedicated API client class for external requests.",
        priority |-> "NIT"],
       [name |-> "Circular Import Risk",
        file_pattern |-> "\\.py$",
        code_pattern |-> "from\\s+\\.{3,}",
        message |-> "Deep relative imports may indicate potential circular dependencies.",
        suggestion |-> "Consider restructuring to reduce deep imports.",
        priority |-> "LOW"] >>

\* NamingConventionConfig.python, the default
DefaultNaming_python ==
    [class |-> "^[A-Z][a-zA-Z0-9]*$",
     function |-> "^[a-z_][a-z0-9_]*$",
     constant |-> "^[A-Z][A-Z0-9_]*$"]

\* NamingConventionConfig.javascript, the default
DefaultNaming_javascript ==
    [class |-> "^[A-Z][a-zA-Z0-9]*$",
     function |-> "^[a-z][a-zA-Z0-9]*$",
     constant |-> "^[A-Z][A-Z0-9_]*$"]

Compiled(tree) == [ok |-> TRUE, tree |-> tree, error |-> ""]
CompileError(error) == [ok |-> FALSE, tree |-> <<>>, error |-> error]

\* re's compilation of the patterns that occur: the tree of a pattern, or
\* re.error for one that does not compile
Compile(regex) ==
    CASE regex = "execute\\s*\\(\\s*f[\"\\']|execute\\s*\\([^)]*%|execute\\s*\\([^)]*\\.format\\(" ->
            Compiled(Concat(<<Str("execute"),
                              Branch(<<Concat(<<Repeat(0, -1, In(SpaceChars)), Str("("),
                                                Repeat(0, -1, In(SpaceChars)), Str("f"),
                                                In({"\"", "'"})>>),
                                       Concat(<<Repeat(0, -1, In(SpaceChars)), Str("("),
                                                Repeat(0, -1, NotLiteral(")")), Str("%")>>),
                                       Concat(<<Repeat(0, -1, In(SpaceChars)), Str("("),
                                                Repeat(0, -1, NotLiteral(")")), Str(".format(")>>)>>)>>))
      [] regex = "[\"\\']SELECT\\s.*[\"\\']\\s*\\+|[\"\\']INSERT\\s.*[\"\\']\\s*\\+|[\"\\']UPDATE\\s.*[\"\\']\\s*\\+|[\"\\']DELETE\\s.*[\"\\']\\s*\\+" ->
            Compiled(Concat(<<In({"\"", "'"}),
                              Branch(<<Concat(<<Str("SELECT"), In(SpaceChars),
                                                Repeat(0, -1, AnyChar), In({"\"", "'"}),
                                                Repeat(0, -1, In(SpaceChars)), Str("+")>>),
                                       Concat(<<Str("INSERT"), In(SpaceChars),
                                                Repeat(0, -1, AnyChar), In({"\"", "'"}),
                                                Repeat(0, -1, In(SpaceChars)), Str("+")>>),
                                       Concat(<<Str("UPDATE"), In(SpaceChars),
                                                Repeat(0, -1, AnyChar), In({"\"", "'"}),
                                                Repeat(0, -1, In(SpaceChars)), Str("+")>>),
                                       Concat(<<Str("DELETE"), In(SpaceChars),
                                                Repeat(0, -1, AnyChar), In({"\"", "'"}),
                                                Repeat(0, -1, In(SpaceChars)), Str("+")>>)>>)>>))
      [] regex = "\\.innerHTML\\s*=(?!\\s*[\"\\'][\"\\'])" ->
            Compiled(Concat(<<Str(".innerHTML"), Repeat(0, -1, In(SpaceChars)), Str("="),
                              NotAhead(Concat(<<Repeat(0, -1, In(SpaceChars)), In({"\"", "'"}),
                                                In({"\"", "'"})>>))>>))
      [] regex = "dangerouslySetInnerHTML\\s*=\\s*\\{" ->
            Compiled(Concat(<<Str("dangerouslySetInnerHTML"), Repeat(0, -1, In(SpaceChars)),
                              Str("="), Repeat(0, -1, In(SpaceChars)), Str("{")>>))
      [] regex = "(password|passwd|pwd|secret|api_key|apikey|api_secret|auth_token|access_token)\\s*=\\s*[\"\\'][^\"\\']{8,}[\"\\']" ->
            Compiled(Concat(<<Branch(<<Str("password"), Str("passwd"), Str("pwd"),
                                       Str("secret"), Str("api_key"), Str("apikey"),
                                       Str("api_secret"), Str("auth_token"),
                                       Str("access_token")>>),
                              Repeat(0, -1, In(SpaceChars)), Str("="),
                              Repeat(0, -1, In(SpaceChars)), In({"\"", "'"}),
                              Repeat(8, -1, NotIn({"\"", "'"})), In({"\"", "'"})>>))
      [] regex = "AKIA[0-9A-Z]{16}" ->
            Compiled(Concat(<<Str("AKIA"), Repeat(16, 16, In(Digits \cup UpperChars))>>))
      [] regex = "-----BEGIN\\s+(RSA\\s+)?PRIVATE\\s+KEY-----" ->
            Compiled(Concat(<<Str("-----BEGIN"), Repeat(1, -1, In(SpaceChars)),
                              Repeat(0, 1, Concat(<<Str("RSA"), Repeat(1, -1, In(SpaceChars))>>)),
                              Str("PRIVATE"), Repeat(1, -1, In(SpaceChars)), Str("KEY-----")>>))
      [] regex = "\\beval\\s*\\([^)]+\\)" ->
            Compiled(Concat(<<At("boundary"), Str("eval"), Repeat(0, -1, In(SpaceChars)),
                              Str("("), Repeat(1, -1, NotLiteral(")")), Str(")")>>))
      [] regex = "\\bexec\\s*\\([^)]+\\)" ->
            Compiled(Concat(<<At("boundary"), Str("exec"), Repeat(0, -1, In(SpaceChars)),
                              Str("("), Repeat(1, -1, NotLiteral(")")), Str(")")>>))
      [] regex = "subprocess\\.(call|run|Popen)\\s*\\([^)]*shell\\s*=\\s*True" ->
            Compiled(Concat(<<Str("subprocess."),
                              Branch(<<Str("call"), Str("run"), Str("Popen")>>),
                              Repeat(0, -1, In(SpaceChars)), Str("("),
                              Repeat(0, -1, NotLiteral(")")), Str("shell"),
                              Repeat(0, -1, In(SpaceChars)), Str("="),
                              Repeat(0, -1, In(SpaceChars)), Str("True")>>))
      [] regex = "os\\.system\\s*\\([^)]+\\)" ->
            Compiled(Concat(<<Str("os.system"), Repeat(0, -1, In(SpaceChars)), Str("("),
                              Repeat(1, -1, NotLiteral(")")), Str(")")>>))
      [] regex = "pickle\\.loads?\\s*\\(" ->
            Compiled(Concat(<<Str("pickle.load"), Repeat(0, 1, Str("s")),
                              Repeat(0, -1, In(SpaceChars)), Str("(")>>))
      [] regex = "DEBUG\\s*=\\s*True|app\\.run\\([^)]*debug\\s*=\\s*True" ->
            Compiled(Branch(<<Concat(<<Str("DEBUG"), Repeat(0, -1, In(SpaceChars)), Str("="),
                                       Repeat(0, -1, In(SpaceChars)), Str("True")>>),
                              Concat(<<Str("app.run("), Repeat(0, -1, NotLiteral(")")),
                                       Str("debug"), Repeat(0, -1, In(SpaceChars)), Str("="),
                                       Repeat(0, -1, In(SpaceChars)), Str("True")>>)>>))
      [] regex = "console\\.log\\([^)]*(?:password|secret|token|key|credential)" ->
            Compiled(Concat(<<Str("console.log("), Repeat(0, -1, NotLiteral(")")),
                              Branch(<<Str("password"), Str("secret"), Str("token"), Str("key"),
                                       Str("credential")>>)>>))
      [] regex = "for\\s+\\w+\\s+in\\s+\\w+[^:]*:\\s*\\n\\s*.*\\.(query|execute|find|get|fetch)" ->
            Compiled(Concat(<<Str("for"), Repeat(1, -1, In(SpaceChars)),
                              Repeat(1, -1, In(WordChars)), Repeat(1, -1, In(SpaceChars)),
                              Str("in"), Repeat(1, -1, In(SpaceChars)),
                              Repeat(1, -1, In(WordChars)), Repeat(0, -1, NotLiteral(":")),
                              Str(":"), Repeat(0, -1, In(SpaceChars)), Str("\n"),
                              Repeat(0, -1, In(SpaceChars)), Repeat(0, -1, AnyChar), Str("."),
                              Branch(<<Str("query"), Str("execute"), Str("find"), Str("get"),
                                       Str("fetch")>>)>>))
      [] regex = "for\\s+\\w+\\s+in\\s+\\w+[^:]*:\\s*\\n\\s*.*open\\s*\\(" ->
            Compiled(Concat(<<Str("for"), Repeat(1, -1, In(SpaceChars)),
                              Repeat(1, -1, In(WordChars)), Repeat(1, -1, In(SpaceChars)),
                              Str("in"), Repeat(1, -1, In(SpaceChars)),
                              Repeat(1, -1, In(WordChars)), Repeat(0, -1, NotLiteral(":")),
                              Str(":"), Repeat(0, -1, In(SpaceChars)), Str("\n"),
                              Repeat(0, -1, In(SpaceChars)), Repeat(0, -1, AnyChar),
                              Str("open"), Repeat(0, -1, In(SpaceChars)), Str("(")>>))
      [] regex = "for\\s+\\w+\\s+in\\s+\\w+[^:]*:\\s*\\n\\s*\\w+\\.append\\(" ->
            Compiled(Concat(<<Str("for"), Repeat(1, -1, In(SpaceChars)),
                              Repeat(1, -1, In(WordChars)), Repeat(1, -1, In(SpaceChars)),
                              Str("in"), Repeat(1, -1, In(SpaceChars)),
                              Repeat(1, -1, In(WordChars)), Repeat(0, -1, NotLiteral(":")),
                              Str(":"), Repeat(0, -1, In(SpaceChars)), Str("\n"),
                              Repeat(0, -1, In(SpaceChars)), Repeat(1, -1, In(WordChars)),
                              Str(".append(")>>))
      [] regex = "for\\s+\\w+\\s+in\\s+\\w+[^:]*:\\s*\\n\\s*\\w+\\s*\\+=\\s*[\"\\']" ->
            Compiled(Concat(<<Str("for"), Repeat(1, -1, In(SpaceChars)),
                              Repeat(1, -1, In(WordChars)), Repeat(1, -1, In(SpaceChars)),
                              Str("in"), Repeat(1, -1, In(SpaceChars)),
                              Repeat(1, -1, In(WordChars)), Repeat(0, -1, NotLiteral(":")),
                              Str(":"), Repeat(0, -1, In(SpaceChars)), Str("\n"),
                              Repeat(0, -1, In(SpaceChars)), Repeat(1, -1, In(WordChars)),
                              Repeat(0, -1, In(SpaceChars)), Str("+="),
                              Repeat(0, -1, In(SpaceChars)), In({"\"", "'"})>>))
      [] regex = "requests\\.(get|post|put|delete|patch)\\s*\\(" ->
            Compiled(Concat(<<Str("requests."),
                              Branch(<<Str("get"), Str("post"), Str("put"), Str("delete"),
                                       Str("patch")>>),
                              Repeat(0, -1, In(SpaceChars)), Str("(")>>))
      [] regex = "execute\\(.*[+%].*\\)|f\".*SELECT.*\\{.*\\}\"" ->
            Compiled(Branch(<<Concat(<<Str("execute("), Repeat(0, -1, AnyChar), In({"+", "%"}),
                                       Repeat(0, -1, AnyChar), Str(")")>>),
                              Concat(<<Str("f\""), Repeat(0, -1, AnyChar), Str("SELECT"),
                                       Repeat(0, -1, AnyChar), Str("{"), Repeat(0, -1, AnyChar),
                                       Str("}\"")>>)>>))
      [] regex = "innerHTML\\s*=|dangerouslySetInnerHTML|v-html" ->
            Compiled(Branch(<<Concat(<<Str("innerHTML"), Repeat(0, -1, In(SpaceChars)), Str("=")>>),
                              Str("dangerouslySetInnerHTML"), Str("v-html")>>))
      [] regex = "(password|secret|api_key|apikey|token)\\s*=\\s*[\"\\'][^\"\\']{8,}[\"\\']" ->
            Compiled(Concat(<<Branch(<<Str("password"), Str("secret"), Str("api_key"),
                                       Str("apikey"), Str("token")>>),
                              Repeat(0, -1, In(SpaceChars)), Str("="),
                              Repeat(0, -1, In(SpaceChars)), In({"\"", "'"}),
                              Repeat(8, -1, NotIn({"\"", "'"})), In({"\"", "'"})>>))
      [] regex = "\\beval\\s*\\(|\\bexec\\s*\\(" ->
            Compiled(Concat(<<At("boundary"), Str("e"),
                              Branch(<<Concat(<<Str("val"), Repeat(0, -1, In(SpaceChars)),
                                                Str("(")>>),
                                       Concat(<<Str("xec"), Repeat(0, -1, In(SpaceChars)),
                                                Str("(")>>)>>)>>))
      [] regex = "except\\s*:" ->
            Compiled(Concat(<<Str("except"), Repeat(0, -1, In(SpaceChars)), Str(":")>>))
      [] regex = "def\\s+\\w+\\s*\\([^)]*=\\s*(\\[\\]|\\{\\})\\s*[,)]" ->
            Compiled(Concat(<<Str("def"), Repeat(1, -1, In(SpaceChars)),
                              Repeat(1, -1, In(WordChars)), Repeat(0, -1, In(SpaceChars)),
                              Str("("), Repeat(0, -1, NotLiteral(")")), Str("="),
                              Repeat(0, -1, In(SpaceChars)), Branch(<<Str("[]"), Str("{}")>>),
                              Repeat(0, -1, In(SpaceChars)), In({",", ")"})>>))
      [] regex = "from\\s+\\w+\\s+import\\s+\\*" ->
            Compiled(Concat(<<Str("from"), Repeat(1, -1, In(SpaceChars)),
                              Repeat(1, -1, In(WordChars)), Repeat(1, -1, In(SpaceChars)),
                              Str("import"), Repeat(1, -1, In(SpaceChars)), Str("*")>>))
      [] regex = "#\\s*TODO(?!.*#\\d+|.*issue|.*ticket)" ->
            Compiled(Concat(<<Str("#"), Repeat(0, -1, In(SpaceChars)), Str("TODO"),
                              NotAhead(Branch(<<Concat(<<Repeat(0, -1, AnyChar), Str("#"),
                                                         Repeat(1, -1, In(Digits))>>),
                                                Concat(<<Repeat(0, -1, AnyChar), Str("issue")>>),
                                                Concat(<<Repeat(0, -1, AnyChar), Str("ticket")>>)>>))>>))
      [] regex = "#\\s*FIXME" ->
            Compiled(Concat(<<Str("#"), Repeat(0, -1, In(SpaceChars)), Str("FIXME")>>))
      [] regex = "(?<![\\w.])\\b(?!0|1|2|10|100|1000|True|False)\\d{2,}\\b(?!\\s*[:\\]\\)])" ->
            Compiled(Concat(<<NotBehind(In(WordChars \cup {"."})), At("boundary"),
                              NotAhead(Branch(<<Str("0"), Str("1"), Str("2"), Str("10"),
                                                Str("100"), Str("1000"), Str("True"),
                                                Str("False")>>)),
                              Repeat(2, -1, In(Digits)), At("boundary"),
                              NotAhead(Concat(<<Repeat(0, -1, In(SpaceChars)),
                                                In({":", "]", ")"})>>))>>))
      [] regex = "^\\s*print\\s*\\(" ->
            Compiled(Concat(<<At("beginning"), Repeat(0, -1, In(SpaceChars)), Str("print"),
                              Repeat(0, -1, In(SpaceChars)), Str("(")>>))
      [] regex = "console\\.(log|debug|info)\\s*\\(" ->
            Compiled(Concat(<<Str("console."),
                              Branch(<<Str("log"), Str("debug"), Str("info")>>),
                              Repeat(0, -1, In(SpaceChars)), Str("(")>>))
      [] regex = "\\bvar\\s+\\w+" ->
            Compiled(Concat(<<At("boundary"), Str("var"), Repeat(1, -1, In(SpaceChars)),
                              Repeat(1, -1, In(WordChars))>>))
      [] regex = "[^!=]==[^=]" ->
            Compiled(Concat(<<NotIn({"!", "="}), Str("=="), NotLiteral("=")>>))
      [] regex = "//\\s*TODO(?!.*#\\d+|.*issue|.*ticket)" ->
            Compiled(Concat(<<Str("//"), Repeat(0, -1, In(SpaceChars)), Str("TODO"),
                              NotAhead(Branch(<<Concat(<<Repeat(0, -1, AnyChar), Str("#"),
                                                         Repeat(1, -1, In(Digits))>>),
                                                Concat(<<Repeat(0, -1, AnyChar), Str("issue")>>),
                                                Concat(<<Repeat(0, -1, AnyChar), Str("ticket")>>)>>))>>))
      [] regex = "\\balert\\s*\\(" ->
            Compiled(Concat(<<At("boundary"), Str("alert"), Repeat(0, -1, In(SpaceChars)),
                              Str("(")>>))
      [] regex = ":\\s*any\\b" ->
            Compiled(Concat(<<Str(":"), Repeat(0, -1, In(SpaceChars)), Str("any"),
                              At("boundary")>>))
      [] regex = "as\\s+any\\b" ->
            Compiled(Concat(<<Str("as"), Repeat(1, -1, In(SpaceChars)), Str("any"),
                              At("boundary")>>))
      [] regex = "\\w+![\\.\\[]" ->
            Compiled(Concat(<<Repeat(1, -1, In(WordChars)), Str("!"), In({".", "["})>>))
      [] regex = "^[A-Z][a-zA-Z0-9]*$" ->
            Compiled(Concat(<<At("beginning"), In(UpperChars),
                              Repeat(0, -1, In(LowerChars \cup UpperChars \cup Digits)),
                              At("end")>>))
      [] regex = "^[a-z_][a-z0-9_]*$" ->
            Compiled(Concat(<<At("beginning"), In(LowerChars \cup {"_"}),
                              Repeat(0, -1, In(LowerChars \cup Digits \cup {"_"})), At("end")>>))
      [] regex = "^[A-Z][A-Z0-9_]*$" ->
            Compiled(Concat(<<At("beginning"), In(UpperChars),
                              Repeat(0, -1, In(UpperChars \cup Digits \cup {"_"})), At("end")>>))
      [] regex = "^[a-z][a-zA-Z0-9]*$" ->
            Compiled(Concat(<<At("beginning"), In(LowerChars),
                              Repeat(0, -1, In(LowerChars \cup UpperChars \cup Digits)),
                              At("end")>>))
      [] regex = "class\\s+(\\w+)" ->
            Compiled(Concat(<<Str("class"), Repeat(1, -1, In(SpaceChars)),
                              Repeat(1, -1, In(WordChars))>>))
      [] regex = "def\\s+(\\w+)" ->
            Compiled(Concat(<<Str("def"), Repeat(1, -1, In(SpaceChars)),
                              Repeat(1, -1, In(WordChars))>>))
      [] regex = "eval" ->
            Compiled(Str("eval"))
      [] regex = "token" ->
            Compiled(Str("token"))
      [] regex = "eval(" -> CompileError("missing ), unterminated subpattern at position 4")
      [] regex = "^[a-z][a-z0-9_]*$" ->
            Compiled(Concat(<<At("beginning"), In(LowerChars),
                              Repeat(0, -1, In(LowerChars \cup Digits \cup {"_"})), At("end")>>))
      [] regex = "\\+\\s*(def|function|const|let|var)\\s+(\\w+)\\s*[\\(=]" ->
            Compiled(Concat(<<Str("+"), Repeat(0, -1, In(SpaceChars)),
                              Branch(<<Str("def"), Str("function"), Str("const"), Str("let"),
                                       Str("var")>>),
                              Repeat(1, -1, In(SpaceChars)), Repeat(1, -1, In(WordChars)),
                              Repeat(0, -1, In(SpaceChars)), In({"(", "="})>>))
      [] regex = "(controller|view|handler)\\." ->
            Compiled(Concat(<<Branch(<<Str("controller"), Str("view"), Str("handler")>>),
                              Str(".")>>))
      [] regex = "(cursor\\.execute|\\.query\\(|db\\.(find|insert|update|delete))" ->
            Compiled(Branch(<<Str("cursor.execute"), Str(".query("),
                              Concat(<<Str("db."),
                                       Branch(<<Str("find"), Str("insert"), Str("update"),
                                                Str("delete")>>)>>)>>))
      [] regex = "models?\\." ->
            Compiled(Concat(<<Str("model"), Repeat(0, 1, Str("s")), Str(".")>>))
      [] regex = "(def\\s+(?!__)\\w+.*\\n\\s+.*(?:if|for|while|try))" ->
            Compiled(Concat(<<Str("def"), Repeat(1, -1, In(SpaceChars)), NotAhead(Str("__")),
                              Repeat(1, -1, In(WordChars)), Repeat(0, -1, AnyChar), Str("\n"),
                              Repeat(1, -1, In(SpaceChars)), Repeat(0, -1, AnyChar),
                              Branch(<<Str("if"), Str("for"), Str("while"), Str("try")>>)>>))
      [] regex = "service\\." ->
            Compiled(Str("service."))
      [] regex = "(requests\\.(get|post)|fetch\\(|axios\\.)" ->
            Compiled(Branch(<<Concat(<<Str("requests."), Branch(<<Str("get"), Str("post")>>)>>),
                              Str("fetch("), Str("axios.")>>))
      [] regex = "\\.py$" ->
            Compiled(Concat(<<Str(".py"), At("end")>>))
      [] regex = "from\\s+\\.{3,}" ->
            Compiled(Concat(<<Str("from"), Repeat(1, -1, In(SpaceChars)),
                              Repeat(3, -1, Str("."))>>))

-----------------------------------------------------------------------------
(* RiskAnalyzer: the security and the performance rules on one file        *)

\* SecurityPattern(name, regex, severity, description) of the configuration
SecurityPattern(name, regex, severity, description) ==
    [name |-> name, regex |-> regex, severity |-> severity, description |-> description]

\* the dict _check_security_patterns appends for a configured pattern cp
CustomAsPattern(cp) ==
    [name |-> cp.name, regex |-> cp.regex, severity |-> cp.severity,
     category |-> "security", message |-> cp.description, suggestion |-> ""]

RECURSIVE CustomAsPatterns(_)
CustomAsPatterns(custom_patterns) ==
    IF custom_patterns = <<>> THEN <<>>
    ELSE <<CustomAsPattern(Head(custom_patterns))>> \o CustomAsPatterns(Tail(custom_patterns))

\* the mutation used to test C14: the appends go to the class's list itself
CombinePatterns_NoCopy(table, custom_patterns) ==
    [all_patterns |-> table \o CustomAsPatterns(custom_patterns),
     table        |-> table \o CustomAsPatterns(custom_patterns)]

\* all_patterns = self.BUILTIN_PATTERNS.copy() and the appends to it; table is
\* the list the class attribute holds, before and after
CombinePatterns(table, custom_patterns) ==
    [all_patterns |-> table \o CustomAsPatterns(custom_patterns),
     table        |-> table]

\* {"HIGH": ..., "NIT": ...}.get(severity, Priority.MEDIUM)
SecurityPriority(severity) ==
    IF severity \in Priorities THEN severity ELSE "MEDIUM"

\* {"HIGH": ..., "NIT": ...}.get(severity, Priority.LOW)
PerformancePriority(severity) ==
    IF severity \in Priorities THEN severity ELSE "LOW"

\* str.strip()
RECURSIVE LStrip(_)
LStrip(s) ==
    IF s # "" /\ CharAt(s, 1) \in SpaceChars THEN LStrip(SubSeq(s, 2, Len(s))) ELSE s

RECURSIVE RStrip(_)
RStrip(s) ==
    IF s # "" /\ CharAt(s, Len(s)) \in SpaceChars THEN RStrip(SubSeq(s, 1, Len(s) - 1)) ELSE s

Strip(s) == LStrip(RStrip(s))

\* what a call of one of the checks did: the list it returned, or the
\* exception it let through
ReturnedFeedbacks(feedbacks) == [raised |-> FALSE, error |-> "", feedbacks |-> feedbacks]
RaisedError(error) == [raised |-> TRUE, error |-> error, feedbacks |-> <<>>]

\* the Feedback of a security pattern that matched a line
SecurityFeedback(filename, line_num, line_content, pattern) ==
    [Feedback(filename, line_num, SecurityPriority(pattern.severity), "security",
              pattern.name, pattern.message, Some(pattern.suggestion))
       EXCEPT !.code_snippet = Some(Strip(line_content))]

\* the two loops of _check_security_patterns, the lines outside and the
\* patterns inside, from the n-th pair on; re.search compiles the pattern
\* when it is called and raises re.error for one that does not compile
RECURSIVE CheckSecurityFrom(_, _, _, _, _)
CheckSecurityFrom(filename, added_lines, all_patterns, n, feedbacks) ==
    IF n > Len(added_lines) * Len(all_patterns) THEN ReturnedFeedbacks(feedbacks)
    ELSE LET added    == added_lines[((n - 1) \div Len(all_patterns)) + 1]
             pattern  == all_patterns[((n - 1) % Len(all_patterns)) + 1]
             compiled == Compile(pattern.regex)
         IN  IF ~compiled.ok THEN RaisedError(compiled.error)
             ELSE CheckSecurityFrom(filename, added_lines, all_patterns, n + 1,
                      IF Search(compiled.tree, added[2], Flags(TRUE, FALSE))
                      THEN Append(feedbacks,
                                  SecurityFeedback(filename, added[1], added[2], pattern))
                      ELSE feedbacks)

\* s.count('\n')
RECURSIVE CountNewlines(_)
CountNewlines(s) ==
    IF s = "" THEN 0
    ELSE (IF CharAt(s, 1) = "\n" THEN 1 ELSE 0) + CountNewlines(SubSeq(s, 2, Len(s)))

LineContents(added_lines) == [n \in 1..Len(added_lines) |-> added_lines[n][2]]

Min(a, b) == IF a <= b THEN a ELSE b

\* the mutant that reports the position of the line among the added lines
PerformanceFeedback_ReportsPosition(filename, added_lines, combined_content, pattern, match) ==
    LET line_num    == CountNewlines(SubSeq(combined_content, 1, match.start - 1)) + 1
        actual_line == IF added_lines # <<>> THEN line_num ELSE 0
        group0      == SubSeq(combined_content, match.start, match.end - 1)
    IN  [Feedback(filename, actual_line, PerformancePriority(pattern.severity),
                  "performance", pattern.name, pattern.message, Some(pattern.suggestion))
           EXCEPT !.code_snippet = Some(SubSeq(group0, 1, Min(100, Len(group0))))]

\* the Feedback of one match of a performance pattern in the combined content
PerformanceFeedback(filename, added_lines, combined_content, pattern, match) ==
    LET line_num    == CountNewlines(SubSeq(combined_content, 1, match.start - 1)) + 1
        actual_line == IF added_lines # <<>>
                       THEN added_lines[Min(line_num - 1, Len(added_lines) - 1) + 1][1]
                       ELSE 0
        group0      == SubSeq(combined_content, match.start, match.end - 1)
    IN  [Feedback(filename, actual_line, PerformancePriority(pattern.severity),
                  "performance", pattern.name, pattern.message, Some(pattern.suggestion))
           EXCEPT !.code_snippet = Some(SubSeq(group0, 1, Min(100, Len(group0))))]

RECURSIVE MatchFeedbacks(_, _, _, _, _)
MatchFeedbacks(filename, added_lines, combined_content, pattern, matches) ==
    IF matches = <<>> THEN <<>>
    ELSE <<PerformanceFeedback(filename, added_lines, combined_content, pattern, Head(matches))>>
         \o MatchFeedbacks(filename, added_lines, combined_content, pattern, Tail(matches))

\* the loop of _check_performance_patterns over the table, from the k-th
\* pattern on: re.finditer with re.MULTILINE alone
RECURSIVE CheckPerformanceFrom(_, _, _, _, _)
CheckPerformanceFrom(table, filename, added_lines, combined_content, k) ==
    IF k > Len(table) THEN <<>>
    ELSE LET pattern == table[k]
             matches == FindIter(Compile(pattern.regex).tree, combined_content,
                                 Flags(FALSE, TRUE))
         IN  MatchFeedbacks(filename, added_lines, combined_content, pattern, matches)
             \o CheckPerformanceFrom(table, filename, added_lines, combined_content, k + 1)

\* RiskAnalyzer._check_performance_patterns
CheckPerformancePatterns(filename, added_lines) ==
    CheckPerformanceFrom(PERFORMANCE_PATTERNS, filename, added_lines,
                         JoinLines(LineContents(added_lines)), 1)

-----------------------------------------------------------------------------
(* RiskSpec: RiskAnalyzer.analyze, one file of context.files at a step     *)

\* ReviewConfig.ignore, as the default configuration has it
DefaultIgnore ==
    <<"*.lock", "*.min.js", "*.min.css", "package-lock.json", "yarn.lock",
      "pnpm-lock.yaml", "dist/*", "build/*", "node_modules/*", ".git/*">>

EndsWith(s, p) == Len(s) >= Len(p) /\ SubSeq(s, Len(s) - Len(p) + 1, Len(s)) = p

\* fnmatch.fnmatch(filename, pattern) for the patterns of the list: a star at
\* the start, a star at the end, or none
FnMatch(filename, pattern) ==
    IF StartsWith(pattern, "*") THEN EndsWith(filename, SubSeq(pattern, 2, Len(pattern)))
    ELSE IF EndsWith(pattern, "*")
    THEN StartsWith(filename, SubSeq(pattern, 1, Len(pattern) - 1))
    ELSE filename = pattern

\* BaseAnalyzer.should_skip_file
ShouldSkipFile(file) ==
    \E n \in 1..Len(DefaultIgnore) : FnMatch(file.filename, DefaultIgnore[n])

\* what one iteration of the loop of analyze did with a file: the table the
\* security check used, what the two checks did, and the list the class holds
SkippedFile(table) ==
    [skipped |-> TRUE, all_patterns |-> <<>>, table |-> table,
     security |-> None, performance |-> None]

\* the body of the loop of analyze for one file
AnalyzeFile(table, custom_patterns, file) ==
    IF ShouldSkipFile(file) \/ file.patch = "" THEN SkippedFile(table)
    ELSE LET added_lines == ExtractAddedLines(file.patch)
             combined    == CombinePatterns(table, custom_patterns)
             security    == CheckSecurityFrom(file.filename, added_lines,
                                              combined.all_patterns, 1, <<>>)
         IN  [skipped |-> FALSE, all_patterns |-> combined.all_patterns,
              table |-> combined.table, security |-> Some(security),
              performance |-> IF security.raised THEN None
                              ELSE Some(CheckPerformancePatterns(file.filename, added_lines))]

\* most files of context.files
MaxRiskFiles == 2

\* configured patterns: one named as a built-in rule is, with a severity that
\* is no Priority, and one whose regex does not compile
CustomEval == SecurityPattern("Eval Usage", "eval", "Critical", "Custom rule for eval")
CustomBroken == SecurityPattern("Broken", "eval(", "LOW", "A rule that does not compile")

\* config.security.patterns: the default list, or what the configuration file gives
SecurityConfigs ==
    {DefaultSecurityPatterns, <<>>, <<CustomEval>>, <<CustomBroken>>,
     <<CustomEval, CustomBroken>>, <<CustomBroken, CustomEval>>}

\* the files of a pull request
RiskFiles ==
    {[filename |-> "app.py", patch |-> "@@ -0,0 +1 @@\n+result = eval(x)"],
     [filename |-> "api.py", patch |-> "@@ -3,0 +4 @@\n+requests.get(url)"],
     [filename |-> "loop.py", patch |-> "@@ -1,2 +1,4 @@\n+for a in b:\n+  x.get(a)"],
     [filename |-> "yarn.lock", patch |-> "@@ -0,0 +1 @@\n+result = eval(x)"],
     [filename |-> "logo.png", patch |-> ""]}

RiskInit ==
    /\ risk_pc = "analyze"
    /\ security_patterns \in SecurityConfigs
    /\ builtin_table = BUILTIN_PATTERNS
    /\ risk_file = None
    /\ files_done = 0
    /\ security_table = <<>>
    /\ security_out = None
    /\ performance_out = None
    /\ risk_feedbacks = <<>>
    /\ BesideRiskIdle

\* one iteration of the loop over context.files; an exception of the security
\* check leaves analyze
AnalyzeNextFile ==
    /\ risk_pc = "analyze"
    /\ files_done < MaxRiskFiles
    /\ \E file \in RiskFiles :
        \E done \in {AnalyzeFile(builtin_table, security_patterns, file)} :
          LET raised == ~done.skipped /\ done.security[1].raised
          IN  /\ risk_file' = Some(file)
              /\ files_done' = files_done + 1
              /\ builtin_table' = done.table
              /\ security_table' = done.all_patterns
              /\ security_out' = done.security
              /\ performance_out' = done.performance
              /\ risk_feedbacks' = IF done.skipped \/ raised THEN risk_feedbacks
                                   ELSE risk_feedbacks \o done.security[1].feedbacks
                                                       \o done.performance[1]
              /\ risk_pc' = IF raised THEN "raised" ELSE "analyze"
    /\ UNCHANGED <<security_patterns, besideRisk>>

\* the loop is over: return feedbacks
ReturnFeedbacks ==
    /\ risk_pc = "analyze"
    /\ risk_pc' = "returned"
    /\ UNCHANGED <<security_patterns, builtin_table, risk_file, files_done, security_table,
                   security_out, performance_out, risk_feedbacks, besideRisk>>

RiskNext == AnalyzeNextFile \/ ReturnFeedbacks

RiskSpec == RiskInit /\ [][RiskNext]_vars

-----------------------------------------------------------------------------
(* Claims about the security rule table                                    *)

\* the latest iteration ran the security check on its file
SecurityCheckRan == security_out # None

\* the table holds the built-in rules at their places
BuiltinsInPlace(table) ==
    /\ Len(table) >= Len(BUILTIN_PATTERNS)
    /\ \A n \in 1..Len(BUILTIN_PATTERNS) : table[n] = BUILTIN_PATTERNS[n]

\* the table holds the configured rules behind the built-in ones, in the
\* order of the configuration
CustomBehind(table, custom_patterns) ==
    /\ Len(table) = Len(BUILTIN_PATTERNS) + Len(custom_patterns)
    /\ \A k \in 1..Len(custom_patterns) :
          LET entry == table[Len(BUILTIN_PATTERNS) + k]
          IN  /\ entry.name = custom_patterns[k].name
              /\ entry.regex = custom_patterns[k].regex
              /\ entry.severity = custom_patterns[k].severity

BuiltinNames == {BUILTIN_PATTERNS[n].name : n \in 1..Len(BUILTIN_PATTERNS)}

\* C14: the security rule table applied to a file is the built-in rules in
\* their order followed by the configured rules in the order of the
\* configuration, also when a configured rule has the name of a built-in one,
\* and the list the class holds stays the built-in table after every file
C14_BuiltinsThenCustom ==
    /\ builtin_table = BUILTIN_PATTERNS
    /\ SecurityCheckRan =>
          /\ BuiltinsInPlace(security_table)
          /\ CustomBehind(security_table, security_patterns)

\* a second file was checked under a configuration with a rule named as a
\* built-in rule is
C14_Witness ==
    /\ files_done = MaxRiskFiles
    /\ SecurityCheckRan
    /\ \E k \in 1..Len(security_patterns) : security_patterns[k].name \in BuiltinNames
    /\ Len(security_table) > Len(BUILTIN_PATTERNS)

\* the file whose only added line is  result = eval(x)
EvalFile == [filename |-> "app.py", patch |-> "@@ -0,0 +1 @@\n+result = eval(x)"]

\* the severity of the built-in rule for eval
BuiltinEvalSeverity ==
    LET n == CHOOSE k \in 1..Len(BUILTIN_PATTERNS) : BUILTIN_PATTERNS[k].name = "Eval Usage"
    IN  BUILTIN_PATTERNS[n].severity

\* C16: under the default configuration the security check of a file whose
\* only added line is  result = eval(x)  returns exactly one Feedback, of
\* category security and of the severity of the built-in eval rule
C16_OneFeedbackForEval ==
    (/\ security_patterns = DefaultSecurityPatterns
     /\ risk_file = Some(EvalFile)
     /\ SecurityCheckRan)
    => /\ ~security_out[1].raised
       /\ Len(security_out[1].feedbacks) = 1
       /\ security_out[1].feedbacks[1].category = "security"
       /\ security_out[1].feedbacks[1].priority = BuiltinEvalSeverity

\* what the check returns instead: two Feedbacks with one deduplication key,
\* the built-in rule's and the default configuration's
C16_TwoFeedbacksForEval ==
    (/\ security_patterns = DefaultSecurityPatterns
     /\ risk_file = Some(EvalFile)
     /\ SecurityCheckRan)
    => /\ ~security_out[1].raised
       /\ Len(security_out[1].feedbacks) = 2
       /\ \A n \in 1..2 :
             /\ security_out[1].feedbacks[n].category = "security"
             /\ security_out[1].feedbacks[n].priority = BuiltinEvalSeverity
             /\ security_out[1].feedbacks[n].title = "Eval Usage"
             /\ security_out[1].feedbacks[n].line = 1

-----------------------------------------------------------------------------
(* PrioritySpec: an analyzer reads the severity string of a finding        *)

\* ConventionAnalyzer.analyze: {...}.get(pattern["priority"], Priority.LOW)
ArchitecturePriority(priority) ==
    IF priority \in Priorities THEN priority ELSE "LOW"

\* StaticAnalyzer._check_anti_patterns:
\* {...}.get(pattern.get("priority", "LOW"), Priority.LOW)
StylePriority(priority) ==
    IF priority \in Priorities THEN priority ELSE "LOW"

\* the analyzers that read a severity string: the rule tables of the risk,
\* convention and static analyzers, and the external analyzer's findings
SeverityReaders == {"security", "performance", "architecture", "style", "external"}

\* the mutation used to test C17: the security rules fall back to LOW too
PriorityOf_SecurityAsOthers(reader, label) ==
    CASE reader = "security" -> PerformancePriority(label)
      [] reader = "performance" -> PerformancePriority(label)
      [] reader = "architecture" -> ArchitecturePriority(label)
      [] reader = "style" -> StylePriority(label)
      [] reader = "external" -> ParsePriority(label)

\* the Priority a reader gives a finding whose severity string is label
PriorityOf(reader, label) ==
    CASE reader = "security" -> SecurityPriority(label)
      [] reader = "performance" -> PerformancePriority(label)
      [] reader = "architecture" -> ArchitecturePriority(label)
      [] reader = "style" -> StylePriority(label)
      [] reader = "external" -> ParsePriority(label)

\* severity strings: the four names, other spellings of them, and others
SeverityLabels ==
    {"HIGH", "MEDIUM", "LOW", "NIT", "high", "Medium", "low", "Nit",
     "Critical", "critical", "URGENT", "info", ""}

PriorityInit ==
    /\ severity_of \in SeverityReaders
    /\ severity_label \in SeverityLabels
    /\ severity_priority = None
    /\ BesidePriorityIdle

\* the reader looks the string up
ReadSeverity ==
    /\ severity_priority = None
    /\ severity_priority' = Some(PriorityOf(severity_of, severity_label))
    /\ UNCHANGED <<severity_of, severity_label, besidePriority>>

PriorityNext == ReadSeverity

PrioritySpec == PriorityInit /\ [][PriorityNext]_vars

\* the default severity of each reader, as the claim gives it
DefaultPriority(reader) == IF reader = "security" THEN "MEDIUM" ELSE "LOW"

\* C17 as stated: a severity string that is not one of HIGH, MEDIUM, LOW, NIT
\* gives the finding the reader's default severity
C17_UnknownGetsDefault ==
    (severity_priority # None /\ severity_label \notin Priorities)
    => severity_priority = Some(DefaultPriority(severity_of))

\* the strings a reader takes for one of the four names: the rule tables the
\* names themselves, the external analyzer's findings the names in any case
Recognised(reader, label) ==
    IF reader = "external" THEN Upper(label) \in Priorities ELSE label \in Priorities

\* C17: every severity string gets a Priority, none is rejected: a string the
\* reader does not recognise gives the reader's default severity (MEDIUM for
\* security rules, LOW for the others), and one it recognises gives the
\* severity it names
C17_UnrecognisedGetsDefault ==
    severity_priority # None
    => /\ severity_priority[1] \in Priorities
       /\ ~Recognised(severity_of, severity_label)
             => severity_priority = Some(DefaultPriority(severity_of))
       /\ Recognised(severity_of, severity_label)
             => severity_priority = Some(Upper(severity_label))

\* a security rule with an unknown severity string got MEDIUM
C17_Witness ==
    /\ severity_of = "security"
    /\ severity_label = "Critical"
    /\ severity_priority = Some("MEDIUM")

\* the configured rules whose regex compiles
CompilingRules(custom_patterns) ==
    SelectSeq(custom_patterns, LAMBDA cp : Compile(cp.regex).ok)

HasBrokenRule(custom_patterns) == CompilingRules(custom_patterns) # custom_patterns

\* what the security check of a file returns under the rules that compile
WithoutBrokenRules(file, custom_patterns) ==
    CheckSecurityFrom(file.filename, ExtractAddedLines(file.patch),
                      CombinePatterns(BUILTIN_PATTERNS, CompilingRules(custom_patterns)).all_patterns,
                      1, <<>>)

\* C18: when a configured security rule has a regex that does not compile,
\* the security check of a file drops that rule only: it raises nothing and
\* returns what the other rules of the table give, and analyze goes on
C18_BrokenRuleIsDropped ==
    (SecurityCheckRan /\ HasBrokenRule(security_patterns))
    => /\ ~security_out[1].raised
       /\ risk_pc # "raised"
       /\ security_out[1] = WithoutBrokenRules(risk_file[1], security_patterns)

-----------------------------------------------------------------------------
(* RuleSpec: one rule of a rule table is evaluated on one text             *)

\* the rule tables: the security table under the default configuration, the
\* performance table, and the anti-pattern table of each language
RuleTableNames == {"security", "performance", "python", "javascript", "typescript"}

RuleTable(table) ==
    CASE table = "security" ->
            CombinePatterns(BUILTIN_PATTERNS, DefaultSecurityPatterns).all_patterns
      [] table = "performance" -> PERFORMANCE_PATTERNS
      [] OTHER -> ANTI_PATTERNS(table)

\* whether the analyzer of the table finds the rule in the text:
\* _check_security_patterns with re.search and re.IGNORECASE,
\* _check_performance_patterns with re.finditer and re.MULTILINE,
\* _check_anti_patterns with re.search and no flag
RuleMatches(table, regex, text) ==
    CASE table = "security" -> Search(Compile(regex).tree, text, Flags(TRUE, FALSE))
      [] table = "performance" ->
            FindIter(Compile(regex).tree, text, Flags(FALSE, TRUE)) # <<>>
      [] OTHER -> Search(Compile(regex).tree, text, NoFlags)

\* added lines
LineTexts ==
    {"result = eval(x)", "requests.get(url)", "print(x)", "# FIXME later",
     "console.log(x)", "x: any", "x = 1"}

\* the texts a table is evaluated on: one added line at a time, the
\* performance table on the added lines joined
RuleTexts(table) ==
    IF table = "performance" THEN LineTexts \cup {"for a in b:\n  x.get(a)"}
    ELSE LineTexts

RuleInit ==
    /\ rule_table \in RuleTableNames
    /\ rule \in {RuleTable(rule_table)[n] : n \in 1..Len(RuleTable(rule_table))}
    /\ rule_text \in RuleTexts(rule_table)
    /\ rule_hits = None
    /\ BesideRuleIdle

\* the rule is evaluated on the text as it is and in upper and lower case
EvaluateRule ==
    /\ rule_hits = None
    /\ rule_hits' = Some([as_is |-> RuleMatches(rule_table, rule.regex, rule_text),
                          upper |-> RuleMatches(rule_table, rule.regex, Upper(rule_text)),
                          lower |-> RuleMatches(rule_table, rule.regex, Lower(rule_text))])
    /\ UNCHANGED <<rule_table, rule, rule_text, besideRule>>

RuleNext == EvaluateRule

RuleSpec == RuleInit /\ [][RuleNext]_vars

\* C15: a rule of any rule table that matches a text also matches the text
\* with its letters changed to upper case and to lower case
C15_CaseInsensitive ==
    (rule_hits # None /\ rule_hits[1].as_is)
    => (rule_hits[1].upper /\ rule_hits[1].lower)

\* what holds of the security table alone: letter case never matters
C15_SecurityCaseInsensitive ==
    (rule_hits # None /\ rule_table = "security")
    => (rule_hits[1].upper = rule_hits[1].as_is /\ rule_hits[1].lower = rule_hits[1].as_is)

-----------------------------------------------------------------------------
(* NamingSpec: StaticAnalyzer._check_naming on one added line              *)

\* match.group(1) of re.search for a pattern that ends with its only group,
\* None when the pattern does not match: the pattern is tried from the
\* leftmost position on, and what stands before the group gives up
\* characters until the group matches
LastGroup(tree, text) ==
    LET prefix == Concat(SubSeq(tree.items, 1, Len(tree.items) - 1))
        group  == tree.items[Len(tree.items)]
        starts == {i \in 1..(Len(text) + 1) : Ends(tree, text, i, NoFlags) # {}}
    IN  IF starts = {} THEN None
        ELSE LET start  == CHOOSE i \in starts : \A j \in starts : i <= j
                 before == SelectSeq(EndsInOrder(prefix, text, start, NoFlags),
                                     LAMBDA p : Ends(group, text, p, NoFlags) # {})
                 from   == before[1]
             IN  Some(SubSeq(text, from, EndsInOrder(group, text, from, NoFlags)[1] - 1))

\* the Feedback of a name that fails its convention; the message quotes the
\* name between backquotes, written as apostrophes here
NamingFeedback(filename, line_num, line_content, message) ==
    [Feedback(filename, line_num, "NIT", "style", "Naming Convention", message, None)
       EXCEPT !.code_snippet = Some(Strip(line_content))]

\* the class-name check of one line
CheckClassName(filename, line_num, line_content, conventions) ==
    LET class_match == LastGroup(Compile("class\\s+(\\w+)").tree, line_content)
    IN  IF class_match # None /\ "class" \in DOMAIN conventions
        THEN LET name == class_match[1]
             IN  IF ~Match(Compile(conventions["class"]).tree, name, NoFlags)
                 THEN <<NamingFeedback(filename, line_num, line_content,
                            "Class name '" \o name \o "' should be PascalCase.")>>
                 ELSE <<>>
        ELSE <<>>

\* the function-name check of one line; dunder methods are skipped
CheckFunctionName(filename, line_num, line_content, conventions) ==
    LET func_match == LastGroup(Compile("def\\s+(\\w+)").tree, line_content)
    IN  IF func_match # None /\ "function" \in DOMAIN conventions
        THEN LET name == func_match[1]
             IN  IF /\ ~(StartsWith(name, "__") /\ EndsWith(name, "__"))
                    /\ ~Match(Compile(conventions["function"]).tree, name, NoFlags)
                 THEN <<NamingFeedback(filename, line_num, line_content,
                            "Function name '" \o name \o "' should be snake_case.")>>
                 ELSE <<>>
        ELSE <<>>

\* StaticAnalyzer._check_naming; conventions is the dict of the language in
\* config.naming, and only python lines are checked
RECURSIVE CheckNaming(_, _, _, _)
CheckNaming(filename, added_lines, language, conventions) ==
    IF added_lines = <<>> \/ language # "python" THEN <<>>
    ELSE CheckClassName(filename, Head(added_lines)[1], Head(added_lines)[2], conventions)
         \o CheckFunctionName(filename, Head(added_lines)[1], Head(added_lines)[2], conventions)
         \o CheckNaming(filename, Tail(added_lines), language, conventions)

\* config.naming.python: the default, one with a function pattern that
\* admits no leading underscore, one with the function pattern of the
\* javascript default, and one that names no class pattern
NamingConfigs ==
    {DefaultNaming_python,
     [DefaultNaming_python EXCEPT !.function = "^[a-z][a-z0-9_]*$"],
     [DefaultNaming_python EXCEPT !.function = DefaultNaming_javascript.function],
     [function |-> DefaultNaming_python.function]}

\* added lines of a python file
NamingLines ==
    {"class Foo:", "class foo:", "class _Private:", "class __Meta__:", "class _foo:",
     "def run():", "def Bad():", "def _helper():", "def __init__(self):",
     "def __str__(self):", "def __private():", "    def _x(self):", "x = 1"}

\* added lines of a javascript file
NamingLines_javascript ==
    {"class foo {", "class Foo {", "function Bad_name() {", "function goodName() {",
     "const max_retries = 3;", "const MAX_RETRIES = 3;"}

\* the target line numbers of the added line
NamingLineNums == {1, 42}

NamingInit ==
    /\ naming_language \in {"python", "javascript"}
    /\ naming_conventions \in IF naming_language = "python" THEN NamingConfigs
                              ELSE {DefaultNaming_javascript}
    /\ naming_line_num \in NamingLineNums
    /\ naming_line \in IF naming_language = "python" THEN NamingLines
                       ELSE NamingLines_javascript
    /\ naming_out = None
    /\ BesideNamingIdle

\* a file of the language
NamingFile(language) == IF language = "python" THEN "app.py" ELSE "app.js"

\* _check_naming is called for a file of the language with the one added line
CallCheckNaming ==
    /\ naming_out = None
    /\ naming_out' = Some(CheckNaming(NamingFile(naming_language),
                                      <<<<naming_line_num, naming_line>>>>,
                                      naming_language, naming_conventions))
    /\ UNCHANGED <<naming_language, naming_conventions, naming_line_num, naming_line,
                   besideNaming>>

NamingNext == CallCheckNaming

NamingSpec == NamingInit /\ [][NamingNext]_vars

\* the identifiers a line declares, as class or as function
DeclaredNames(line) ==
    {m[1] : m \in {LastGroup(Compile("class\\s+(\\w+)").tree, line),
                   LastGroup(Compile("def\\s+(\\w+)").tree, line)} \ {None}}

\* a dunder-style special name, or a name with the privacy-marker prefix
IsExemptName(name) ==
    (StartsWith(name, "__") /\ EndsWith(name, "__")) \/ StartsWith(name, "_")

\* C20: the naming check emits no Feedback for a line whose declared
\* identifier is a dunder-style name or begins with an underscore, be it a
\* class or a function, under every configured naming pattern
C20_SpecialNamesExempt ==
    (/\ naming_out # None
     /\ DeclaredNames(naming_line) # {}
     /\ \A name \in DeclaredNames(naming_line) : IsExemptName(name))
    => naming_out[1] = <<>>

\* what holds: a function whose name starts and ends with a double
\* underscore gets no Feedback
C20_DunderFunctionsExempt ==
    (/\ naming_out # None
     /\ \E name \in DeclaredNames(naming_line) :
           StartsWith(name, "__") /\ EndsWith(name, "__")
     /\ StartsWith(Strip(naming_line), "def"))
    => naming_out[1] = <<>>

\* what an added line of the pools declares: the kind and the identifier
Declaration(kind, name) == [kind |-> kind, name |-> name]

DeclarationIn(line) ==
    CASE line = "class Foo:" -> Some(Declaration("class", "Foo"))
      [] line = "class foo:" -> Some(Declaration("class", "foo"))
      [] line = "class _Private:" -> Some(Declaration("class", "_Private"))
      [] line = "class __Meta__:" -> Some(Declaration("class", "__Meta__"))
      [] line = "class _foo:" -> Some(Declaration("class", "_foo"))
      [] line = "def run():" -> Some(Declaration("function", "run"))
      [] line = "def Bad():" -> Some(Declaration("function", "Bad"))
      [] line = "def _helper():" -> Some(Declaration("function", "_helper"))
      [] line = "def __init__(self):" -> Some(Declaration("function", "__init__"))
      [] line = "def __str__(self):" -> Some(Declaration("function", "__str__"))
      [] line = "def __private():" -> Some(Declaration("function", "__private"))
      [] line = "    def _x(self):" -> Some(Declaration("function", "_x"))
      [] line = "class foo {" -> Some(Declaration("class", "foo"))
      [] line = "class Foo {" -> Some(Declaration("class", "Foo"))
      [] line = "function Bad_name() {" -> Some(Declaration("function", "Bad_name"))
      [] line = "function goodName() {" -> Some(Declaration("function", "goodName"))
      [] line = "const max_retries = 3;" -> Some(Declaration("constant", "max_retries"))
      [] line = "const MAX_RETRIES = 3;" -> Some(Declaration("constant", "MAX_RETRIES"))
      [] OTHER -> None

\* the line declares an identifier that is not exempt, of a kind the
\* configuration of the language has a pattern for
ChecksApply ==
    /\ naming_out # None
    /\ DeclarationIn(naming_line) # None
    /\ ~IsExemptName(DeclarationIn(naming_line)[1].name)
    /\ DeclarationIn(naming_line)[1].kind \in DOMAIN naming_conventions

\* the identifier of the line satisfies the pattern of its kind
SatisfiesConvention ==
    Match(Compile(naming_conventions[DeclarationIn(naming_line)[1].kind]).tree,
          DeclarationIn(naming_line)[1].name, NoFlags)

\* one Feedback, of severity NIT and category style, at the line
OneNamingFeedback ==
    /\ Len(naming_out[1]) = 1
    /\ naming_out[1][1].priority = "NIT"
    /\ naming_out[1][1].category = "style"
    /\ naming_out[1][1].line = naming_line_num

\* C21: for python and javascript and for classes, functions and constants,
\* a declaration that is not exempt and fails the configured pattern gets one
\* Feedback of severity NIT and category style at the line's number, and one
\* that satisfies the pattern gets none
C21_NamingChecked ==
    ChecksApply
    => IF SatisfiesConvention THEN naming_out[1] = <<>> ELSE OneNamingFeedback

\* what holds: the same for the classes and functions of python
C21_PythonNamingChecked ==
    (ChecksApply /\ naming_language = "python")
    => IF SatisfiesConvention THEN naming_out[1] = <<>> ELSE OneNamingFeedback

-----------------------------------------------------------------------------
(* ConventionSpec: ConventionAnalyzer.analyze on the files of a pull       *)
(* request: the architecture rules and the duplicate-function check        *)

\* PRFile.extension: what follows the last dot of the file name
Extension(filename) ==
    LET dots == {i \in 1..Len(filename) : CharAt(filename, i) = "."}
    IN  IF dots = {} THEN ""
        ELSE SubSeq(filename, (CHOOSE i \in dots : \A j \in dots : j <= i) + 1, Len(filename))

\* the Feedback of an architecture rule for a file
ArchitectureFeedback(file, pattern) ==
    Feedback(Some(file.filename), None, ArchitecturePriority(pattern.priority),
             "architecture",
             pattern.name, pattern.message, Some(pattern.suggestion))

\* the mutant of the rule loop that searches the code pattern of every rule
ArchitectureRule_NoFileGate(file, pattern, done) ==
    [searches |-> done.searches \cup {<<file.filename, pattern.name>>},
     feedbacks |-> IF Search(Compile(pattern.code_pattern).tree, file.patch, Flags(TRUE, TRUE))
                   THEN Append(done.feedbacks, ArchitectureFeedback(file, pattern))
                   ELSE done.feedbacks]

\* the body of the loop over ARCHITECTURE_PATTERNS for one file and one rule:
\* the file name is searched first, and the patch only when the name matched
ArchitectureRule(file, pattern, done) ==
    IF ~Search(Compile(pattern.file_pattern).tree, file.filename, Flags(TRUE, FALSE))
    THEN done
    ELSE [searches |-> done.searches \cup {<<file.filename, pattern.name>>},
          feedbacks |-> IF Search(Compile(pattern.code_pattern).tree, file.patch,
                                  Flags(TRUE, TRUE))
                        THEN Append(done.feedbacks, ArchitectureFeedback(file, pattern))
                        ELSE done.feedbacks]

\* the two loops of _check_architecture, the files outside and the rules
\* inside, from the n-th pair on
RECURSIVE CheckArchitectureFrom(_, _, _)
CheckArchitectureFrom(files, n, done) ==
    IF n > Len(files) * Len(ARCHITECTURE_PATTERNS) THEN done
    ELSE LET file    == files[((n - 1) \div Len(ARCHITECTURE_PATTERNS)) + 1]
             pattern == ARCHITECTURE_PATTERNS[((n - 1) % Len(ARCHITECTURE_PATTERNS)) + 1]
         IN  CheckArchitectureFrom(files, n + 1,
                 IF ShouldSkipFile(file) \/ file.patch = "" THEN done
                 ELSE ArchitectureRule(file, pattern, done))

\* ConventionAnalyzer._check_architecture(files): the list it returns, and
\* the code patterns it searched
CheckArchitecture(files) ==
    CheckArchitectureFrom(files, 1, [searches |-> {}, feedbacks |-> <<>>])

\* func_pattern of _check_duplicates
FuncPattern == "\\+\\s*(def|function|const|let|var)\\s+(\\w+)\\s*[\\(=]"

\* group k of a match that starts at start, for a pattern that is a sequence
\* whose k-th item is the group: what stands before the group gives up
\* characters, and then the group does, until the rest of the pattern matches
GroupOfMatch(tree, k, text, start, flags) ==
    LET prefix == Concat(SubSeq(tree.items, 1, k - 1))
        group  == tree.items[k]
        suffix == Concat(SubSeq(tree.items, k + 1, Len(tree.items)))
        ends(p) == SelectSeq(EndsInOrder(group, text, p, flags),
                             LAMBDA q : Ends(suffix, text, q, flags) # {})
        before == SelectSeq(EndsInOrder(prefix, text, start, flags),
                            LAMBDA p : ends(p) # <<>>)
    IN  SubSeq(text, before[1], ends(before[1])[1] - 1)

\* func_name of the entries of re.findall(func_pattern, file.patch)
FunctionNames(patch_text) ==
    LET tree    == Compile(FuncPattern).tree
        matches == FindIter(tree, patch_text, NoFlags)
    IN  [m \in 1..Len(matches) |-> GroupOfMatch(tree, 5, patch_text, matches[m].start, NoFlags)]

\* the Feedback for a function that another file declares; the message
\* quotes the two names between backquotes, written as apostrophes here
DuplicateFeedback(file, func_name, other_file) ==
    Feedback(Some(file.filename), None, "LOW", "architecture", "Potential Duplicate Function",
             "Function '" \o func_name \o "' also exists in '" \o other_file \o "'.",
             Some("Consider consolidating duplicate logic or renaming for clarity."))

\* the loop over the matches of one file
RECURSIVE DuplicateNames(_, _, _)
DuplicateNames(file, names, done) ==
    IF names = <<>> THEN done
    ELSE LET func_name == Head(names)
         IN  DuplicateNames(file, Tail(names),
                 IF func_name \in DOMAIN done.function_sigs
                 THEN IF done.function_sigs[func_name] # file.filename
                      THEN [done EXCEPT !.feedbacks =
                               Append(@, DuplicateFeedback(file, func_name,
                                                           done.function_sigs[func_name]))]
                      ELSE done
                 ELSE [done EXCEPT !.function_sigs = (func_name :> file.filename) @@ @])

\* the loop of _check_duplicates over the files; function_sigs is one dict
\* for all of them
RECURSIVE CheckDuplicatesFrom(_, _)
CheckDuplicatesFrom(files, done) ==
    IF files = <<>> THEN done
    ELSE LET file == Head(files)
         IN  CheckDuplicatesFrom(Tail(files),
                 IF Extension(file.filename) \notin {"py", "js", "ts"} \/ file.patch = ""
                 THEN done
                 ELSE DuplicateNames(file, FunctionNames(file.patch), done))

\* ConventionAnalyzer._check_duplicates(files): the list it returns, and
\* function_sigs at the end
CheckDuplicates(files) ==
    CheckDuplicatesFrom(files, [function_sigs |-> <<>>, feedbacks |-> <<>>])

\* the files of a pull request; each name is in lower case and no patch adds
\* an import, so _check_file_naming and _check_imports return [] for them
ConventionFiles ==
    {[filename |-> "user_controller.py",
      patch |-> "@@ -1,2 +1,2 @@\n-cursor.execute(q)\n+def load(q):"],
     [filename |-> "user_service.py",
      patch |-> "@@ -0,0 +1,2 @@\n+def load(q):\n+  return requests.get(q)"],
     [filename |-> "helpers.py", patch |-> "@@ -0,0 +1 @@\n+cursor.execute(q)"],
     [filename |-> "models.py", patch |-> "@@ -1,2 +1,3 @@\n+def total(x):\n   if x:"],
     [filename |-> "dist/bundle.js", patch |-> "@@ -0,0 +1 @@\n+function load(q) {"],
     [filename |-> "logo.png", patch |-> ""]}

\* most files of context.files
MaxConventionFiles == 2

\* the sequences of distinct entries of a set
DistinctSeqs(S, n) ==
    {q \in SeqsOver(S, n) : \A i, j \in 1..Len(q) : i # j => q[i] # q[j]}

ConventionInit ==
    /\ conv_pc = "architecture"
    /\ conv_files \in DistinctSeqs(ConventionFiles, MaxConventionFiles)
    /\ code_searches = {}
    /\ architecture_feedbacks = None
    /\ function_sigs = <<>>
    /\ duplicate_feedbacks = None
    /\ conv_feedbacks = None
    /\ BesideConventionIdle

\* architecture_feedbacks = self._check_architecture(context.files)
CallCheckArchitecture ==
    /\ conv_pc = "architecture"
    /\ \E done \in {CheckArchitecture(conv_files)} :
          /\ architecture_feedbacks' = Some(done.feedbacks)
          /\ code_searches' = done.searches
    /\ conv_pc' = "duplicates"
    /\ UNCHANGED <<conv_files, function_sigs, duplicate_feedbacks, conv_feedbacks,
                   besideConvention>>

\* duplicate_feedbacks = self._check_duplicates(context.files)
CallCheckDuplicates ==
    /\ conv_pc = "duplicates"
    /\ \E done \in {CheckDuplicates(conv_files)} :
          /\ duplicate_feedbacks' = Some(done.feedbacks)
          /\ function_sigs' = done.function_sigs
    /\ conv_pc' = "return"
    /\ UNCHANGED <<conv_files, code_searches, architecture_feedbacks, conv_feedbacks,
                   besideConvention>>

\* return feedbacks: the lists of the checks, one after the other
ReturnConvention ==
    /\ conv_pc = "return"
    /\ conv_feedbacks' = Some(architecture_feedbacks[1] \o duplicate_feedbacks[1])
    /\ conv_pc' = "returned"
    /\ UNCHANGED <<conv_files, code_searches, architecture_feedbacks, function_sigs,
                   duplicate_feedbacks, besideConvention>>

ConventionNext == CallCheckArchitecture \/ CallCheckDuplicates \/ ReturnConvention

ConventionSpec == ConventionInit /\ [][ConventionNext]_vars

-----------------------------------------------------------------------------
(* C22: the order of the files                                             *)

\* the orders in which the files of a list can be processed
OrdersOf(files) ==
    {q \in DistinctSeqs(Range(files), Len(files)) : Len(q) = Len(files)}

\* what analyze returns for the files in a given order
ConventionFeedbacks(files) ==
    CheckArchitecture(files).feedbacks \o CheckDuplicates(files).feedbacks

\* C22: the aggregated (deduplicated, sorted) feedback of the files of a pull
\* request is the same for every order in which the files are processed
C22_OrderOfFilesIsImmaterial ==
    conv_pc = "returned"
    => \A files \in OrdersOf(conv_files) :
          DeduplicateFeedbacks(ConventionFeedbacks(files))
              = DeduplicateFeedbacks(conv_feedbacks[1])

\* the rules that look at one file only give the same aggregate in every order
C22_ArchitectureOrderIsImmaterial ==
    conv_pc = "returned"
    => \A files \in OrdersOf(conv_files) :
          DeduplicateFeedbacks(CheckArchitecture(files).feedbacks)
              = DeduplicateFeedbacks(architecture_feedbacks[1])

-----------------------------------------------------------------------------
(* FileSpec: one file of a pull request under the rule checks of the       *)
(* static analyzer and of the risk analyzer                                *)

\* the Feedback of an anti-pattern that matched a line
AntiPatternFeedback(filename, line_num, line_content, pattern) ==
    [Feedback(filename, line_num, StylePriority(pattern.priority), "style",
              pattern.name, pattern.message, Some(pattern.suggestion))
       EXCEPT !.code_snippet = Some(Strip(line_content))]

RECURSIVE CheckAntiPatternsFrom(_, _, _, _, _)

\* the mutant of the two loops that leaves a line at its first match
CheckAntiPatternsFrom_FirstMatchOnly(filename, added_lines, patterns, n, feedbacks) ==
    IF n > Len(added_lines) * Len(patterns) THEN feedbacks
    ELSE LET added   == added_lines[((n - 1) \div Len(patterns)) + 1]
             pattern == patterns[((n - 1) % Len(patterns)) + 1]
         IN  IF Search(Compile(pattern.regex).tree, added[2], NoFlags)
             THEN CheckAntiPatternsFrom(filename, added_lines, patterns,
                      (((n - 1) \div Len(patterns)) + 1) * Len(patterns) + 1,
                      Append(feedbacks,
                             AntiPatternFeedback(filename, added[1], added[2], pattern)))
             ELSE CheckAntiPatternsFrom(filename, added_lines, patterns, n + 1, feedbacks)

\* the two loops of _check_anti_patterns, the lines outside and the patterns
\* inside, from the n-th pair on: re.search without flags
CheckAntiPatternsFrom(filename, added_lines, patterns, n, feedbacks) ==
    IF n > Len(added_lines) * Len(patterns) THEN feedbacks
    ELSE LET added   == added_lines[((n - 1) \div Len(patterns)) + 1]
             pattern == patterns[((n - 1) % Len(patterns)) + 1]
         IN  CheckAntiPatternsFrom(filename, added_lines, patterns, n + 1,
                 IF Search(Compile(pattern.regex).tree, added[2], NoFlags)
                 THEN Append(feedbacks,
                             AntiPatternFeedback(filename, added[1], added[2], pattern))
                 ELSE feedbacks)

\* StaticAnalyzer._check_anti_patterns
CheckAntiPatterns(filename, added_lines, language) ==
    CheckAntiPatternsFrom(filename, added_lines, ANTI_PATTERNS(language), 1, <<>>)

\* getattr(naming_config, language, {}): the dict of the language
LangConfig(naming_python, language) ==
    CASE language = "python" -> naming_python
      [] language = "javascript" -> DefaultNaming_javascript
      [] OTHER -> <<>>

\* the body of the loop of StaticAnalyzer.analyze for one file: what it adds
\* to feedbacks
StaticAnalyzeFile(naming_python, file) ==
    IF ShouldSkipFile(file) \/ file.patch = "" THEN <<>>
    ELSE LET language == EXTENSION_MAP(Extension(file.filename))
         IN  IF language = None THEN <<>>
             ELSE LET added_lines == StaticExtractAddedLines(file.patch)
                  IN  CheckNaming(file.filename, added_lines, language[1],
                                  LangConfig(naming_python, language[1]))
                      \o CheckAntiPatterns(file.filename, added_lines, language[1])

\* the files
CheckedFiles ==
    {[filename |-> "app.py",
      patch |-> "@@ -0,0 +1 @@\n+def Load(x): requests.get(eval(x)) # FIXME"],
     [filename |-> "two.py",
      patch |-> "@@ -4,0 +5,2 @@\n+x = 1 # TODO # FIXME\n+requests.get(a); requests.post(b)"],
     [filename |-> "loop.py",
      patch |-> "@@ -1,2 +1,3 @@\n-requests.get(u)\n+for a in b:\n+  x.get(a)\n print(eval(z))"],
     [filename |-> "hunks.py",
      patch |-> "@@ -1,0 +1 @@\n+for a in b:\n@@ -49,0 +50 @@\n+  x.get(a)"],
     [filename |-> "app.js", patch |-> "@@ -0,0 +1 @@\n+var x = eval(y); console.log(x)"],
     [filename |-> "notes.txt", patch |-> "@@ -0,0 +1 @@\n+result = eval(x)"],
     [filename |-> "dist/app.py", patch |-> "@@ -0,0 +1 @@\n+print(eval(x))"],
     [filename |-> "logo.png", patch |-> ""]}

\* config.security.patterns: the default, none, and one configured rule
CheckedSecurity == {DefaultSecurityPatterns, <<>>, <<CustomEval>>}

FileInit ==
    /\ file_pc = "static"
    /\ checked_file \in CheckedFiles
    /\ checked_naming \in NamingConfigs
    /\ checked_security \in CheckedSecurity
    /\ static_found = None
    /\ risk_found = None
    /\ BesideFileIdle

\* the static analyzer reaches the file
RunStaticOnFile ==
    /\ file_pc = "static"
    /\ static_found' = Some(StaticAnalyzeFile(checked_naming, checked_file))
    /\ file_pc' = "risk"
    /\ UNCHANGED <<checked_file, checked_naming, checked_security, risk_found, besideFile>>

\* the risk analyzer reaches the file
RunRiskOnFile ==
    /\ file_pc = "risk"
    /\ risk_found' = Some(AnalyzeFile(BUILTIN_PATTERNS, checked_security, checked_file))
    /\ file_pc' = "done"
    /\ UNCHANGED <<checked_file, checked_naming, checked_security, static_found, besideFile>>

FileNext == RunStaticOnFile \/ RunRiskOnFile

FileSpec == FileInit /\ [][FileNext]_vars

-----------------------------------------------------------------------------
(* C23: every rule that matches is reported                                *)

\* both analyzers went through the file, and neither skipped it
FileChecked ==
    /\ file_pc = "done"
    /\ ~risk_found[1].skipped
    /\ ~risk_found[1].security[1].raised

\* the (line, rule) pairs of a table of per-line rules that match
MatchingPairs(added_lines, table, flags) ==
    {pair \in (1..Len(added_lines)) \X (1..Len(table)) :
        Search(Compile(table[pair[2]].regex).tree, added_lines[pair[1]][2], flags)}

\* the entries of a list of Feedbacks that report a rule at a line
ReportsOf(feedbacks, category, line_num, pattern) ==
    {i \in 1..Len(feedbacks) :
        /\ feedbacks[i].category = category
        /\ feedbacks[i].line = line_num
        /\ feedbacks[i].title = pattern.name
        /\ feedbacks[i].message = pattern.message}

\* one Feedback for each matching pair, and none beside them
OnePerPair(feedbacks, category, added_lines, table, flags) ==
    LET pairs == MatchingPairs(added_lines, table, flags)
    IN  /\ Len(feedbacks) = Cardinality(pairs)
        /\ \A pair \in pairs :
              Cardinality(ReportsOf(feedbacks, category, added_lines[pair[1]][1],
                                    table[pair[2]])) = 1

\* one Feedback for each occurrence of each windowed rule, and none beside them
OnePerOccurrence(feedbacks, added_lines) ==
    LET combined_content == JoinLines(LineContents(added_lines))
        occurrences(k) == FindIter(Compile(PERFORMANCE_PATTERNS[k].regex).tree,
                                   combined_content, Flags(FALSE, TRUE))
        reports(k) == {i \in 1..Len(feedbacks) :
                          /\ feedbacks[i].category = "performance"
                          /\ feedbacks[i].title = PERFORMANCE_PATTERNS[k].name}
    IN  /\ \A k \in 1..Len(PERFORMANCE_PATTERNS) :
              Cardinality(reports(k)) = Len(occurrences(k))
        /\ \A i \in 1..Len(feedbacks) :
              \E k \in 1..Len(PERFORMANCE_PATTERNS) : i \in reports(k)

\* the language of the file, None for a file the static analyzer passes over
LanguageOf(file) == EXTENSION_MAP(Extension(file.filename))

\* the findings of the static analyzer for the file, by concern
NamingFound == SelectSeq(static_found[1], LAMBDA fb : fb.title = "Naming Convention")
StyleFound == SelectSeq(static_found[1], LAMBDA fb : fb.title # "Naming Convention")

\* C23: on a file that is not skipped every (added line, per-line rule) pair
\* that matches has exactly one Feedback, for the security table and for the
\* anti-pattern table of the file's language, every occurrence of a windowed
\* rule has one, and the naming findings stand beside them
C23_NoShortCircuit ==
    FileChecked
    => /\ OnePerPair(risk_found[1].security[1].feedbacks, "security",
                     ExtractAddedLines(checked_file.patch), risk_found[1].all_patterns,
                     Flags(TRUE, FALSE))
       /\ OnePerOccurrence(risk_found[1].performance[1],
                           ExtractAddedLines(checked_file.patch))
       /\ LanguageOf(checked_file) # None
          => /\ OnePerPair(StyleFound, "style",
                           StaticExtractAddedLines(checked_file.patch),
                           ANTI_PATTERNS(LanguageOf(checked_file)[1]), NoFlags)
             /\ NamingFound
                  = CheckNaming(checked_file.filename,
                                StaticExtractAddedLines(checked_file.patch),
                                LanguageOf(checked_file)[1],
                                LangConfig(checked_naming, LanguageOf(checked_file)[1]))

\* a line with findings of all four concerns, two of them of the security table
C23_Witness ==
    /\ FileChecked
    /\ \E n \in {fb.line : fb \in Range(static_found[1])} :
          /\ \E fb \in Range(NamingFound) : fb.line = n
          /\ \E fb \in Range(StyleFound) : fb.line = n
          /\ Cardinality({i \in 1..Len(risk_found[1].security[1].feedbacks) :
                             risk_found[1].security[1].feedbacks[i].line = n}) = 2
          /\ \E fb \in Range(risk_found[1].performance[1]) : fb.line = n

-----------------------------------------------------------------------------
(* C24: the file-name gate of the architecture rules                       *)

\* re.search(pattern["file_pattern"], file.filename, re.IGNORECASE)
NameFits(file, pattern) ==
    Search(Compile(pattern.file_pattern).tree, file.filename, Flags(TRUE, FALSE))

\* the content of the file has what the rule looks for
CodeFits(file, pattern) ==
    Search(Compile(pattern.code_pattern).tree, file.patch, Flags(TRUE, TRUE))

ArchitectureChecked == conv_pc \in {"duplicates", "return", "returned"}

\* C24: for a file whose name does not match the file pattern of a rule, the
\* code pattern of the rule is not searched and no Feedback with the rule's
\* title is emitted for the file
C24_FileNameGate ==
    ArchitectureChecked
    => \A file \in Range(conv_files), k \in 1..Len(ARCHITECTURE_PATTERNS) :
          ~NameFits(file, ARCHITECTURE_PATTERNS[k])
          => /\ <<file.filename, ARCHITECTURE_PATTERNS[k].name>> \notin code_searches
             /\ \A fb \in Range(architecture_feedbacks[1]) :
                   ~(fb.file = Some(file.filename)
                     /\ fb.title = ARCHITECTURE_PATTERNS[k].name)

\* a file with the content a rule looks for under a name the rule does not
\* apply to, beside a file the rule was applied to
C24_Witness ==
    /\ ArchitectureChecked
    /\ \E file \in Range(conv_files), k \in 1..Len(ARCHITECTURE_PATTERNS) :
          /\ ~ShouldSkipFile(file)
          /\ ~NameFits(file, ARCHITECTURE_PATTERNS[k])
          /\ CodeFits(file, ARCHITECTURE_PATTERNS[k])
          /\ \E fb \in Range(architecture_feedbacks[1]) :
                fb.title = ARCHITECTURE_PATTERNS[k].name

-----------------------------------------------------------------------------
(* C25: deduplicate_feedbacks leaves what it is given as it was            *)

\* the list a call of deduplicate_feedbacks is given
GivenList == IF dedup_calls = 0 THEN fb_arg ELSE fb_unique

\* C25: after a call of deduplicate_feedbacks the list it was given has the
\* entries it had, in the order they had, each with every field as it was,
\* and every entry of the returned list is an entry of the given list
C25_InputsUntouched ==
    [][dedup_calls' = dedup_calls + 1
       => /\ fb_arg' = GivenList
          /\ \A i \in 1..Len(fb_unique') : \E j \in 1..Len(GivenList) :
                fb_unique'[i] = GivenList[j]]_vars

\* a call that returned fewer entries than it was given, in another order
C25_Witness ==
    /\ dedup_calls = 1
    /\ Len(fb_arg) = 3
    /\ Len(fb_unique) = 2
    /\ fb_unique[1] = fb_arg[3]
    /\ fb_arg = fb_first

-----------------------------------------------------------------------------
(* C26: the severity sections of the report                                *)

\* the positions of the feedback sequence that hold a severity
PositionsOf(feedbacks, priority) ==
    {k \in 1..Len(feedbacks) : feedbacks[k].priority = priority}

\* the i-th smallest member of a set of positions
NthOf(positions, i) ==
    CHOOSE k \in positions : Cardinality({j \in positions : j < k}) = i - 1

\* the entries of a section are the Feedbacks of its severity, each once, in
\* the order of the feedback sequence
HoldsItsSeverity(section, feedbacks) ==
    LET positions == PositionsOf(feedbacks, section.heading)
    IN  /\ Len(section.entries) = Cardinality(positions)
        /\ \A i \in 1..Len(section.entries) :
              section.entries[i] = feedbacks[NthOf(positions, i)]

RECURSIVE SumOf(_)
SumOf(numbers) == IF numbers = <<>> THEN 0 ELSE Head(numbers) + SumOf(Tail(numbers))

\* C26: the sections of the rendered report stand in the order HIGH, MEDIUM,
\* LOW, NIT; a severity has a section exactly when a Feedback has it; a
\* section holds the Feedbacks of its severity, each once and in the order of
\* the feedback sequence; and the four counts sum to the number of Feedbacks
C26_SeveritySections ==
    posted # None =>
        LET feedbacks == result[1].feedbacks
            sections  == posted[1].body.sections
        IN  /\ \A i, j \in 1..Len(sections) :
                  i < j => PriorityOrder(sections[i].heading) < PriorityOrder(sections[j].heading)
            /\ \A priority \in Priorities :
                  (\E i \in 1..Len(sections) : sections[i].heading = priority)
                  <=> SeverityCount(feedbacks, priority) > 0
            /\ \A i \in 1..Len(sections) :
                  /\ sections[i].heading \in Priorities
                  /\ HoldsItsSeverity(sections[i], feedbacks)
            /\ SumOf([i \in 1..Len(sections) |-> Len(sections[i].entries)]) = Len(feedbacks)
            /\ posted[1].body.issue_counts # None
               => SumOf(posted[1].body.issue_counts[1]) = Len(feedbacks)

\* a report with two sections, one of them with two entries
C26_Witness ==
    /\ posted # None
    /\ Len(posted[1].body.sections) = 2
    /\ Len(posted[1].body.sections[1].entries) = 2
    /\ Len(result[1].feedbacks) = 3

-----------------------------------------------------------------------------
(* C27: the lines a windowed rule matches together                         *)

\* the occurrences of the k-th windowed rule in the added lines of the file,
\* each with the positions of the added lines where it begins and ends
Occurrences(added_lines, k) ==
    LET combined_content == JoinLines(LineContents(added_lines))
        matches == FindIter(Compile(PERFORMANCE_PATTERNS[k].regex).tree, combined_content,
                            Flags(FALSE, TRUE))
    IN  [m \in 1..Len(matches) |->
            [first |-> CountNewlines(SubSeq(combined_content, 1, matches[m].start - 1)) + 1,
             last  |-> CountNewlines(SubSeq(combined_content, 1, matches[m].end - 1)) + 1]]

\* the Feedbacks of the k-th windowed rule, in the order they were emitted
FindingsOf(feedbacks, k) ==
    SelectSeq(feedbacks, LAMBDA fb : fb.title = PERFORMANCE_PATTERNS[k].name)

\* the added lines an occurrence covers follow each other in the target file
CoversConsecutiveLines(added_lines, occurrence) ==
    \A n \in occurrence.first..(occurrence.last - 1) :
        added_lines[n + 1][1] = added_lines[n][1] + 1

\* the finding of an occurrence is reported at the line where it begins
ReportedWhereItBegins(added_lines, occurrence, fb) ==
    fb.line = added_lines[occurrence.first][1]

\* C27: every finding of a windowed rule is for added lines that are
\* consecutive in the target file, and it is reported at the target line
\* number of the added line where the match begins
C27_WindowOfConsecutiveLines ==
    FileChecked
    => LET added_lines == ExtractAddedLines(checked_file.patch)
       IN  \A k \in 1..Len(PERFORMANCE_PATTERNS) :
              \A m \in 1..Len(Occurrences(added_lines, k)) :
                 /\ CoversConsecutiveLines(added_lines, Occurrences(added_lines, k)[m])
                 /\ ReportedWhereItBegins(added_lines, Occurrences(added_lines, k)[m],
                        FindingsOf(risk_found[1].performance[1], k)[m])

\* C27, as the code has it: the findings of a windowed rule are the
\* occurrences of the rule in the added lines of the file joined by newlines,
\* whatever stands between the lines in the target file, and each is reported
\* at the target line number of the added line where the match begins
C27_ReportedAtFirstLine ==
    FileChecked
    => LET added_lines == ExtractAddedLines(checked_file.patch)
       IN  \A k \in 1..Len(PERFORMANCE_PATTERNS) :
              /\ Len(FindingsOf(risk_found[1].performance[1], k))
                   = Len(Occurrences(added_lines, k))
              /\ \A m \in 1..Len(Occurrences(added_lines, k)) :
                    ReportedWhereItBegins(added_lines, Occurrences(added_lines, k)[m],
                        FindingsOf(risk_found[1].performance[1], k)[m])

\* a finding of a windowed rule for two added lines of different hunks
C27_Witness ==
    /\ FileChecked
    /\ \E k \in 1..Len(PERFORMANCE_PATTERNS) :
          \E m \in 1..Len(Occurrences(ExtractAddedLines(checked_file.patch), k)) :
             LET added_lines == ExtractAddedLines(checked_file.patch)
                 occurrence  == Occurrences(added_lines, k)[m]
             IN  /\ occurrence.last = occurrence.first + 1
                 /\ added_lines[occurrence.last][1] > added_lines[occurrence.first][1] + 1
                 /\ FindingsOf(risk_found[1].performance[1], k)[m].line
                      = added_lines[occurrence.first][1]

-----------------------------------------------------------------------------
(* C28: files that match an ignore pattern                                 *)

\* the names of the files of the pull request that should_skip_file skips
IgnoredNames == {file.filename : file \in {f \in Range(conv_files) : ShouldSkipFile(f)}}

\* C28: no Feedback of the analyzer names a file that matches one of the
\* ignore patterns of the configuration
C28_IgnoredFilesHaveNoFindings ==
    conv_pc = "returned"
    => \A fb \in Range(conv_feedbacks[1]) : \A name \in IgnoredNames : fb.file # Some(name)

\* the checks that call should_skip_file report nothing for such a file
C28_ArchitectureSkipsIgnored ==
    ArchitectureChecked
    => \A fb \in Range(architecture_feedbacks[1]) :
          \A name \in IgnoredNames : fb.file # Some(name)

-----------------------------------------------------------------------------
(* C29: what the findings of a file depend on                              *)

IsAddedLine(line) == StartsWith(line, "+") /\ ~StartsWith(line, "+++")
IsRemovedLine(line) == StartsWith(line, "-")
IsContextLine(line) ==
    ~StartsWith(line, "@@") /\ ~StartsWith(line, "+") /\ ~StartsWith(line, "-")

\* the patch without its removed lines
WithoutRemovedLines(patch_text) ==
    JoinLines(SelectSeq(SplitLines(patch_text), LAMBDA line : ~IsRemovedLine(line)))

\* the patch with the text of every context line replaced
WithOtherContext(patch_text) ==
    LET lines == SplitLines(patch_text)
    IN  JoinLines([n \in 1..Len(lines) |->
                      IF IsContextLine(lines[n]) THEN " pass" ELSE lines[n]])

\* the file with a patch that differs in removed or context lines only
Variants(file) ==
    {variant \in {[file EXCEPT !.patch = WithoutRemovedLines(file.patch)],
                  [file EXCEPT !.patch = WithOtherContext(file.patch)]} :
        ExtractAddedLines(variant.patch) = ExtractAddedLines(file.patch)}

\* C29: a file whose patch differs in removed lines or in context lines only,
\* with the same added lines at the same line numbers, gets the same findings
C29_AddedContentOnly ==
    ArchitectureChecked
    => \A file \in Range(conv_files) : \A variant \in Variants(file) :
          CheckArchitecture(<<variant>>).feedbacks
              = SelectSeq(architecture_feedbacks[1],
                          LAMBDA fb : fb.file = Some(file.filename))

\* what the loop body of RiskAnalyzer.analyze added to feedbacks for a file
RiskFeedbacksOf(done) ==
    IF done.skipped \/ done.security[1].raised THEN <<>>
    ELSE done.security[1].feedbacks \o done.performance[1]

\* the rule checks of the static and the risk analyzer read the added lines only
C29_LineRulesReadAddedLines ==
    file_pc = "done"
    => \A variant \in Variants(checked_file) :
          /\ StaticAnalyzeFile(checked_naming, variant) = static_found[1]
          /\ RiskFeedbacksOf(AnalyzeFile(BUILTIN_PATTERNS, checked_security, variant))
               = RiskFeedbacksOf(risk_found[1])

-----------------------------------------------------------------------------
(* C30: the order of the steps of run_review                               *)

\* the steps of a run, by what they leave behind
AnalyzerStep == analyzer_idx' # analyzer_idx \/ pattern_feedbacks' # pattern_feedbacks
ExternalStep == llm_outcome' # llm_outcome
ResultStep == result' # result
PostStep == posted' # posted \/ post_failed' # post_failed
StorageStep == stored' # stored

\* what has to be over before a step is made
StepsInOrder ==
    /\ ExternalStep => /\ analyzer_idx = Len(Analyzers)
                       /\ Len(pattern_feedbacks) <= Len(all_feedbacks)
                       /\ ~AnalyzerStep
    /\ ResultStep => /\ llm_outcome # None
                     /\ all_feedbacks = DeduplicateFeedbacks(pattern_feedbacks \o llm_result[1])
                     /\ result'[1].feedbacks = all_feedbacks
    /\ PostStep => /\ result # None
                   /\ posted' # None => posted'[1].body = ToMarkdown(result[1])
    /\ StorageStep => /\ posted # None
                      /\ config.enable_storage
    /\ (AnalyzerStep /\ fetched = "ok") => llm_outcome = None /\ result = None

\* C30: the rule-based analyzers run before the external analysis, the
\* result is built from one deduplication of the findings of both, the
\* posted report is the rendering of that result, the storage is tried only
\* after the review was posted and only if it is enabled, and is tried then;
\* a failure of the storage leaves the exit code at 0, and a failure of
\* fetching or posting gives exit code 1 without the storage being tried
C30_StepsInOrder ==
    /\ [][StepsInOrder]_vars
    /\ [](stored # "no" => posted # None /\ config.enable_storage)
    /\ []((pc = "done" /\ posted # None /\ config.enable_storage) => stored # "no")
    /\ []((pc = "done" /\ posted # None) => exit_code = Some(0))
    /\ []((fetched = "failed" \/ post_failed) => exit_code = Some(1) /\ stored = "no")

\* a run that posted its review, failed to store it and returned 0
C30_Witness ==
    /\ pc = "done"
    /\ posted # None
    /\ stored = "failed"
    /\ exit_code = Some(0)
    /\ llm_outcome # None
    /\ Len(result[1].feedbacks) < Len(pattern_feedbacks \o llm_result[1])

====
